---- MODULE Spec2Model ----
(***************************************************************************)
(* Model of the Page Speed library sources:                                *)
(*   - the JavaScript minifier (js_minify.cc: template class Minifier and  *)
(*     the four entry points MinifyJs, GetMinifiedJsSize,                  *)
(*     MinifyJsAndCollapseStrings, GetMinifiedStringCollapsedJsSize).      *)
(* Bytes are modelled by their integer value, tokens by the integer        *)
(* constants of the source, the input as a sequence of bytes.  The source  *)
(* indexes strings from 0; At(s, i) reads the byte at the 0-based index i. *)
(***************************************************************************)
EXTENDS Integers, Sequences, FiniteSets, TLC

\* ------------------------------------------------------------------------
\* Bytes
\* ------------------------------------------------------------------------

\* The printable ASCII characters in the order of their codes: 32 to 95, and
\* 97 to 126 (the backquote, 96, is named separately).
AsciiLow ==
  <<
    " ", "!", "\"", "#", "$", "%", "&", "'", "(", ")", "*", "+",
    ",", "-", ".", "/", "0", "1", "2", "3", "4", "5", "6", "7",
    "8", "9", ":", ";", "<", "=", ">", "?", "@", "A", "B", "C",
    "D", "E", "F", "G", "H", "I", "J", "K", "L", "M", "N", "O",
    "P", "Q", "R", "S", "T", "U", "V", "W", "X", "Y", "Z", "[",
    "\\", "]", "^", "_"
  >>

AsciiHigh ==
  <<
    "a", "b", "c", "d", "e", "f", "g", "h", "i", "j", "k", "l",
    "m", "n", "o", "p", "q", "r", "s", "t", "u", "v", "w", "x",
    "y", "z", "{", "|", "}", "~"
  >>

\* Value of a C character literal (ASCII).
Ord ==
  [c \in {"\t", "\n", "\r"} \cup {AsciiLow[k] : k \in 1..Len(AsciiLow)}
        \cup {AsciiHigh[k] : k \in 1..Len(AsciiHigh)} |->
     CASE c = "\t" -> 9
       [] c = "\n" -> 10
       [] c = "\r" -> 13
       [] \E k \in 1..Len(AsciiLow) : AsciiLow[k] = c ->
            31 + (CHOOSE k \in 1..Len(AsciiLow) : AsciiLow[k] = c)
       [] OTHER ->
            96 + (CHOOSE k \in 1..Len(AsciiHigh) : AsciiHigh[k] = c)]

\* The backquote character (the third string delimiter of ConsumeString).
Backquote == 96

\* The bytes of a C string literal given as a sequence of its characters.
Bytes(lit) == [i \in 1..Len(lit) |-> Ord[lit[i]]]

\* input_[i] for a 0-based index i.
At(s, i) == s[i + 1]

\* StringPiece::substr(pos, n) with 0-based pos, clamped to the string.
Substr(s, pos, n) ==
  LET p == IF pos > Len(s) THEN Len(s) ELSE pos
      k == IF n > Len(s) - p THEN Len(s) - p ELSE n
  IN  SubSeq(s, p + 1, p + k)

\* input_.substr(index).starts_with(prefix)
StartsWithAt(s, index, prefix) ==
  /\ index + Len(prefix) <= Len(s)
  /\ \A k \in 1..Len(prefix) : s[index + k] = prefix[k]

\* ------------------------------------------------------------------------
\* Tokens
\* ------------------------------------------------------------------------

kEOF == -1
kStartToken == 256
kCCCommentToken == 257
kRegexToken == 258
kStringToken == 259
kNameNumberToken == 260
kKeywordCanPrecedeRegExToken == 261
kPlusPlusToken == 262
kMinusMinusToken == 263

IsIdentifierChar(c) ==
  \/ (c >= Ord["a"] /\ c <= Ord["z"])
  \/ (c >= Ord["0"] /\ c <= Ord["9"])
  \/ (c >= Ord["A"] /\ c <= Ord["Z"])
  \/ c = Ord["_"] \/ c = Ord["$"] \/ c = Ord["\\"]
  \/ c >= 127

\* CannotBeginOrEndStatement without the case of the semicolon.
CannotBeginOrEndStatement_NoSemicolon(token) ==
  token \in {kStartToken, Ord["="], Ord["<"], Ord[">"], Ord[":"],
             Ord["?"], Ord["|"], Ord["^"], Ord["&"], Ord["*"], Ord["/"],
             Ord["%"], Ord[","], Ord["."]}

CannotBeginOrEndStatement(token) ==
  token \in {kStartToken, Ord["="], Ord["<"], Ord[">"], Ord[";"], Ord[":"],
             Ord["?"], Ord["|"], Ord["^"], Ord["&"], Ord["*"], Ord["/"],
             Ord["%"], Ord[","], Ord["."]}

\* EndsPrimaryExpression without the case of the closing bracket.
EndsPrimaryExpression_NoBracket(token) ==
  token \in {kNameNumberToken, kRegexToken, kStringToken, Ord[")"]}

EndsPrimaryExpression(token) ==
  token \in {kNameNumberToken, kRegexToken, kStringToken, Ord[")"], Ord["]"]}

\* CanSuppressLinebreak whose lookahead rule treats ++ and -- like + and -.
CanSuppressLinebreak_IncrementAsSign(prev_token, next_token) ==
  \/ CannotBeginOrEndStatement(prev_token)
  \/ prev_token \in {Ord["("], Ord["["], Ord["{"], Ord["!"], Ord["~"],
                     Ord["+"], Ord["-"]}
  \/ CannotBeginOrEndStatement(next_token)
  \/ next_token \in {Ord[")"], Ord["]"], Ord["}"]}
  \/ /\ EndsPrimaryExpression(prev_token)
     /\ next_token \in {Ord["("], Ord["["], Ord["+"], Ord["-"],
                        kPlusPlusToken, kMinusMinusToken}

CanSuppressLinebreak(prev_token, next_token) ==
  IF \/ CannotBeginOrEndStatement(prev_token)
     \/ prev_token = Ord["("] \/ prev_token = Ord["["] \/ prev_token = Ord["{"]
     \/ prev_token = Ord["!"] \/ prev_token = Ord["~"]
     \/ prev_token = Ord["+"] \/ prev_token = Ord["-"]
  THEN TRUE
  ELSE IF \/ CannotBeginOrEndStatement(next_token)
          \/ next_token = Ord[")"] \/ next_token = Ord["]"]
          \/ next_token = Ord["}"]
  THEN TRUE
  ELSE IF /\ EndsPrimaryExpression(prev_token)
          /\ (next_token = Ord["("] \/ next_token = Ord["["] \/
              next_token = Ord["+"] \/ next_token = Ord["-"])
  THEN TRUE
  ELSE FALSE

\* JsKeywords::CanKeywordPrecedeRegEx: the keyword table is not part of the
\* sources at hand; the design document names return and throw.
CanKeywordPrecedeRegEx(token) ==
  token \in {Bytes(<<"r", "e", "t", "u", "r", "n">>),
             Bytes(<<"t", "h", "r", "o", "w">>)}

\* ------------------------------------------------------------------------
\* Output consumers
\* ------------------------------------------------------------------------

\* StringConsumer(std::string* output): writes into the caller's string.
StringConsumer(output) == [kind |-> "StringConsumer", output_ |-> output]

\* SizeConsumer(std::string* ignored): counts the bytes.
SizeConsumer(ignored) == [kind |-> "SizeConsumer", size_ |-> 0]

StringConsumer_push_back(o, character) ==
  [o EXCEPT !.output_ = Append(@, character)]

StringConsumer_append(o, str) == [o EXCEPT !.output_ = @ \o str]

SizeConsumer_push_back(o, character) == [o EXCEPT !.size_ = @ + 1]

\* SizeConsumer::append that counts a piece as one byte.
SizeConsumer_append_CountsOne(o, str) == [o EXCEPT !.size_ = @ + 1]

SizeConsumer_append(o, str) == [o EXCEPT !.size_ = @ + Len(str)]

\* The template parameter OutputConsumer selects the implementation.
push_back(o, character) ==
  IF o.kind = "StringConsumer" THEN StringConsumer_push_back(o, character)
  ELSE SizeConsumer_push_back(o, character)

append(o, str) ==
  IF o.kind = "StringConsumer" THEN StringConsumer_append(o, str)
  ELSE SizeConsumer_append(o, str)

\* ------------------------------------------------------------------------
\* class Minifier<OutputConsumer>
\* ------------------------------------------------------------------------

\* Minifier::Minifier(input, output), with the consumer built from output.
Minifier(input, consumer) ==
  [input_ |-> input, index_ |-> 0, output_ |-> consumer,
   whitespace_ |-> "NO_WHITESPACE", prev_token_ |-> kStartToken,
   error_ |-> FALSE, collapse_string_ |-> FALSE]

EnableStringCollapse(m) == [m EXCEPT !.collapse_string_ = TRUE]

\* The character after position index, or kEOF.
PeekAt(input, index) ==
  IF index + 1 < Len(input) THEN At(input, index + 1) ELSE kEOF

Peek(m) == PeekAt(m.input_, m.index_)

ChangeToken(m, next_token) ==
  LET m1 == IF /\ m.whitespace_ = "LINEBREAK"
               /\ ~CanSuppressLinebreak(m.prev_token_, next_token)
            THEN [m EXCEPT !.output_ = push_back(@, Ord["\n"])]
            ELSE m
  IN  [m1 EXCEPT !.whitespace_ = "NO_WHITESPACE", !.prev_token_ = next_token]

\* InsertSpaceIfNeeded that leaves whitespace_ as it was.
InsertSpaceIfNeeded_NoReset(m) ==
  CASE m.whitespace_ = "SPACE" ->
         [m EXCEPT !.output_ = push_back(@, Ord[" "])]
    [] m.whitespace_ = "LINEBREAK" ->
         [m EXCEPT !.output_ = push_back(@, Ord["\n"])]
    [] OTHER -> m

\* InsertSpaceIfNeeded that resets whitespace_ after a space only.
InsertSpaceIfNeeded_ResetsSpaceOnly(m) ==
  CASE m.whitespace_ = "SPACE" ->
         [m EXCEPT !.output_ = push_back(@, Ord[" "]),
                   !.whitespace_ = "NO_WHITESPACE"]
    [] m.whitespace_ = "LINEBREAK" ->
         [m EXCEPT !.output_ = push_back(@, Ord["\n"])]
    [] OTHER -> m

InsertSpaceIfNeeded(m) ==
  LET m1 == CASE m.whitespace_ = "SPACE" ->
                   [m EXCEPT !.output_ = push_back(@, Ord[" "])]
              [] m.whitespace_ = "LINEBREAK" ->
                   [m EXCEPT !.output_ = push_back(@, Ord["\n"])]
              [] OTHER -> m
  IN  [m1 EXCEPT !.whitespace_ = "NO_WHITESPACE"]

\* The while loop of ConsumeBlockComment from position i: the index just
\* past the first "*/" at or after i, or -1 when the input ends first.
RECURSIVE BlockCommentScan(_, _)
BlockCommentScan(input, i) ==
  IF i < Len(input)
  THEN IF At(input, i) = Ord["*"] /\ PeekAt(input, i) = Ord["/"]
       THEN i + 2
       ELSE BlockCommentScan(input, i + 1)
  ELSE -1

\* ConsumeBlockComment that keeps every comment that opens with an at sign.
ConsumeBlockComment_OpeningAtOnly(m) ==
  LET begin == m.index_
      start == m.index_ + 2
      may_be_ccc == start < Len(m.input_) /\ At(m.input_, start) = Ord["@"]
      end == BlockCommentScan(m.input_, start)
  IN  IF end = -1
      THEN [m EXCEPT !.index_ = Len(m.input_), !.error_ = TRUE]
      ELSE LET m1 == [m EXCEPT !.index_ = end]
           IN  IF may_be_ccc
               THEN LET m2 == ChangeToken(m1, kCCCommentToken)
                    IN  [m2 EXCEPT !.output_ =
                           append(@, Substr(m.input_, begin, end - begin))]
               ELSE IF m1.whitespace_ = "NO_WHITESPACE"
               THEN [m1 EXCEPT !.whitespace_ = "SPACE"]
               ELSE m1

ConsumeBlockComment(m) ==
  LET begin == m.index_
      start == m.index_ + 2
      may_be_ccc == start < Len(m.input_) /\ At(m.input_, start) = Ord["@"]
      end == BlockCommentScan(m.input_, start)
  IN  IF end = -1
      THEN [m EXCEPT !.index_ = Len(m.input_), !.error_ = TRUE]
      ELSE LET m1 == [m EXCEPT !.index_ = end]
           IN  IF may_be_ccc /\ At(m.input_, end - 3) = Ord["@"]
               THEN LET m2 == ChangeToken(m1, kCCCommentToken)
                    IN  [m2 EXCEPT !.output_ =
                           append(@, Substr(m.input_, begin, end - begin))]
               ELSE IF m1.whitespace_ = "NO_WHITESPACE"
               THEN [m1 EXCEPT !.whitespace_ = "SPACE"]
               ELSE m1

\* The while loop of ConsumeLineComment: the first index at or after i that
\* holds a line terminator, or the end of the input.
RECURSIVE LineCommentScan(_, _)
LineCommentScan(input, i) ==
  IF i < Len(input) /\ At(input, i) # Ord["\n"] /\ At(input, i) # Ord["\r"]
  THEN LineCommentScan(input, i + 1)
  ELSE i

ConsumeLineComment(m) ==
  [m EXCEPT !.index_ = LineCommentScan(m.input_, m.index_),
            !.whitespace_ = "LINEBREAK"]

\* The while loop of ConsumeNameOrNumber: the index after the identifier
\* characters that start at i.
RECURSIVE NameScan(_, _)
NameScan(input, i) ==
  IF i < Len(input) /\ IsIdentifierChar(At(input, i))
  THEN NameScan(input, i + 1)
  ELSE i

ConsumeNameOrNumber(m) ==
  LET m1 == IF \/ m.prev_token_ = kNameNumberToken
               \/ m.prev_token_ = kKeywordCanPrecedeRegExToken
               \/ m.prev_token_ = kRegexToken
            THEN InsertSpaceIfNeeded(m)
            ELSE m
      end == NameScan(m.input_, m.index_)
      token == Substr(m.input_, m.index_, end - m.index_)
      m2 == ChangeToken([m1 EXCEPT !.index_ = end],
                        IF CanKeywordPrecedeRegEx(token)
                        THEN kKeywordCanPrecedeRegExToken
                        ELSE kNameNumberToken)
  IN  [m2 EXCEPT !.output_ = append(@, token)]

\* The loop of ConsumeRegex without the branch that stops at a linebreak.
RECURSIVE RegexScan_IgnoresLinebreak(_, _, _)
RegexScan_IgnoresLinebreak(input, i, within_brackets) ==
  IF i < Len(input)
  THEN LET ch == At(input, i)
       IN  IF ch = Ord["\\"]
           THEN RegexScan_IgnoresLinebreak(input, i + 2, within_brackets)
           ELSE IF ch = Ord["/"] /\ ~within_brackets
           THEN [index_ |-> i + 1, closed |-> TRUE]
           ELSE IF ch = Ord["["]
           THEN RegexScan_IgnoresLinebreak(input, i + 1, TRUE)
           ELSE IF ch = Ord["]"]
           THEN RegexScan_IgnoresLinebreak(input, i + 1, FALSE)
           ELSE RegexScan_IgnoresLinebreak(input, i + 1, within_brackets)
  ELSE [index_ |-> i, closed |-> FALSE]

\* The while loop of ConsumeRegex from position i: where the scan stops and
\* whether it stopped on the closing slash.
RECURSIVE RegexScan(_, _, _)
RegexScan(input, i, within_brackets) ==
  IF i < Len(input)
  THEN LET ch == At(input, i)
       IN  IF ch = Ord["\\"] THEN RegexScan(input, i + 2, within_brackets)
           ELSE IF ch = Ord["/"]
           THEN IF ~within_brackets
                THEN [index_ |-> i + 1, closed |-> TRUE]
                ELSE RegexScan(input, i + 1, within_brackets)
           ELSE IF ch = Ord["["] THEN RegexScan(input, i + 1, TRUE)
           ELSE IF ch = Ord["]"] THEN RegexScan(input, i + 1, FALSE)
           ELSE IF ch = Ord["\n"]
           THEN [index_ |-> i + 1, closed |-> FALSE]
           ELSE RegexScan(input, i + 1, within_brackets)
  ELSE [index_ |-> i, closed |-> FALSE]

\* ConsumeRegex that separates the literal from every previous token.
ConsumeRegex_AlwaysSeparates(m) ==
  LET begin == m.index_
      scan == RegexScan(m.input_, m.index_ + 1, FALSE)
      m1 == [m EXCEPT !.index_ = scan.index_]
  IN  IF scan.closed
      THEN LET m3 == ChangeToken(InsertSpaceIfNeeded(m1), kRegexToken)
           IN  [m3 EXCEPT !.output_ =
                  append(@, Substr(m.input_, begin, scan.index_ - begin))]
      ELSE [m1 EXCEPT !.error_ = TRUE]

ConsumeRegex(m) ==
  LET begin == m.index_
      scan == RegexScan(m.input_, m.index_ + 1, FALSE)
      m1 == [m EXCEPT !.index_ = scan.index_]
  IN  IF scan.closed
      THEN LET m2 == IF m1.prev_token_ = Ord["/"]
                     THEN InsertSpaceIfNeeded(m1) ELSE m1
               m3 == ChangeToken(m2, kRegexToken)
           IN  [m3 EXCEPT !.output_ =
                  append(@, Substr(m.input_, begin, scan.index_ - begin))]
      ELSE [m1 EXCEPT !.error_ = TRUE]

\* The while loop of ConsumeString from position i with delimiter quote.
RECURSIVE StringScan(_, _, _)
StringScan(input, i, quote) ==
  IF i < Len(input)
  THEN LET ch == At(input, i)
       IN  IF ch = Ord["\\"] THEN StringScan(input, i + 2, quote)
           ELSE IF ch = quote THEN [index_ |-> i + 1, closed |-> TRUE]
           ELSE StringScan(input, i + 1, quote)
  ELSE [index_ |-> i, closed |-> FALSE]

\* ConsumeString that collapses a literal to a single quote byte.
ConsumeString_CollapseToOneQuote(m) ==
  LET begin == m.index_
      quote == At(m.input_, begin)
      scan == StringScan(m.input_, m.index_ + 1, quote)
      m1 == [m EXCEPT !.index_ = scan.index_]
  IN  IF scan.closed
      THEN LET m2 == ChangeToken(m1, kStringToken)
           IN  IF m2.collapse_string_
               THEN [m2 EXCEPT !.output_ = push_back(@, quote)]
               ELSE [m2 EXCEPT !.output_ =
                       append(@, Substr(m.input_, begin, scan.index_ - begin))]
      ELSE [m1 EXCEPT !.error_ = TRUE]

ConsumeString(m) ==
  LET begin == m.index_
      quote == At(m.input_, begin)
      scan == StringScan(m.input_, m.index_ + 1, quote)
      m1 == [m EXCEPT !.index_ = scan.index_]
  IN  IF scan.closed
      THEN LET m2 == ChangeToken(m1, kStringToken)
           IN  IF m2.collapse_string_
               THEN [m2 EXCEPT !.output_ = push_back(push_back(@, quote), quote)]
               ELSE [m2 EXCEPT !.output_ =
                       append(@, Substr(m.input_, begin, scan.index_ - begin))]
      ELSE [m1 EXCEPT !.error_ = TRUE]

\* ------------------------------------------------------------------------
\* Minifier::Minify: one iteration of the while loop
\* ------------------------------------------------------------------------

\* The chain of branches in which the SGML closer is a comment wherever it
\* stands.
MinifyBranch_SgmlCloseAnywhere(m) ==
  LET ch == At(m.input_, m.index_)
  IN  IF ch = Ord["\n"] \/ ch = Ord["\r"] THEN "linebreak"
      ELSE IF ch = Ord[" "] \/ ch = Ord["\t"] THEN "space"
      ELSE IF ch = Ord["'"] \/ ch = Ord["\""] \/ ch = Backquote THEN "string"
      ELSE IF ch = Ord["/"]
      THEN IF Peek(m) = Ord["/"] THEN "line_comment"
           ELSE IF Peek(m) = Ord["*"] THEN "block_comment"
           ELSE IF EndsPrimaryExpression(m.prev_token_) THEN "division"
           ELSE "regex"
      ELSE IF IsIdentifierChar(ch) THEN "name"
      ELSE IF ch = Ord["<"] /\
              StartsWithAt(m.input_, m.index_, Bytes(<<"<", "!", "-", "-">>))
      THEN "sgml_open"
      ELSE IF /\ ch = Ord["-"]
              /\ StartsWithAt(m.input_, m.index_, Bytes(<<"-", "-", ">">>))
      THEN "sgml_close"
      ELSE IF ch = Ord["+"] /\ Peek(m) = Ord["+"] THEN "plusplus"
      ELSE IF ch = Ord["-"] /\ Peek(m) = Ord["-"] THEN "minusminus"
      ELSE "other"

\* The branch of the if/else-if chain that the byte at index_ selects.
MinifyBranch(m) ==
  LET ch == At(m.input_, m.index_)
  IN  IF ch = Ord["\n"] \/ ch = Ord["\r"] THEN "linebreak"
      ELSE IF ch = Ord[" "] \/ ch = Ord["\t"] THEN "space"
      ELSE IF ch = Ord["'"] \/ ch = Ord["\""] \/ ch = Backquote THEN "string"
      ELSE IF ch = Ord["/"]
      THEN IF Peek(m) = Ord["/"] THEN "line_comment"
           ELSE IF Peek(m) = Ord["*"] THEN "block_comment"
           ELSE IF EndsPrimaryExpression(m.prev_token_) THEN "division"
           ELSE "regex"
      ELSE IF IsIdentifierChar(ch) THEN "name"
      ELSE IF ch = Ord["<"] /\
              StartsWithAt(m.input_, m.index_, Bytes(<<"<", "!", "-", "-">>))
      THEN "sgml_open"
      ELSE IF /\ ch = Ord["-"]
              /\ (m.whitespace_ = "LINEBREAK" \/ m.prev_token_ = kStartToken)
              /\ StartsWithAt(m.input_, m.index_, Bytes(<<"-", "-", ">">>))
      THEN "sgml_close"
      ELSE IF ch = Ord["+"] /\ Peek(m) = Ord["+"] THEN "plusplus"
      ELSE IF ch = Ord["-"] /\ Peek(m) = Ord["-"] THEN "minusminus"
      ELSE "other"

\* The linebreak branch without the increment of index_.
MinifyLinebreak_NoAdvance(m) == [m EXCEPT !.whitespace_ = "LINEBREAK"]

MinifyLinebreak(m) ==
  [m EXCEPT !.whitespace_ = "LINEBREAK", !.index_ = @ + 1]

\* The space branch that sets SPACE whatever the state is.
MinifySpace_AlwaysSpace(m) ==
  [m EXCEPT !.whitespace_ = "SPACE", !.index_ = @ + 1]

MinifySpace(m) ==
  [m EXCEPT !.whitespace_ = IF @ = "NO_WHITESPACE" THEN "SPACE" ELSE @,
            !.index_ = @ + 1]

MinifyDivision(m) ==
  LET m1 == ChangeToken(m, Ord["/"])
  IN  [m1 EXCEPT !.output_ = push_back(@, At(m.input_, m.index_)),
                 !.index_ = @ + 1]

MinifyPlusPlus(m) ==
  LET m1 == IF m.prev_token_ = Ord["+"] \/ m.prev_token_ = kPlusPlusToken
            THEN InsertSpaceIfNeeded(m) ELSE m
      m2 == ChangeToken(m1, kPlusPlusToken)
  IN  [m2 EXCEPT !.output_ = append(@, Bytes(<<"+", "+">>)),
                 !.index_ = @ + 2]

\* The -- branch that does not look for a ! in front of it.
MinifyMinusMinus_NoBang(m) ==
  LET m1 == IF \/ m.prev_token_ = Ord["-"]
               \/ m.prev_token_ = kMinusMinusToken
            THEN InsertSpaceIfNeeded(m) ELSE m
      m2 == ChangeToken(m1, kMinusMinusToken)
  IN  [m2 EXCEPT !.output_ = append(@, Bytes(<<"-", "-">>)),
                 !.index_ = @ + 2]

MinifyMinusMinus(m) ==
  LET m1 == IF \/ m.prev_token_ = Ord["-"]
               \/ m.prev_token_ = kMinusMinusToken
               \/ m.prev_token_ = Ord["!"]
            THEN InsertSpaceIfNeeded(m) ELSE m
      m2 == ChangeToken(m1, kMinusMinusToken)
  IN  [m2 EXCEPT !.output_ = append(@, Bytes(<<"-", "-">>)),
                 !.index_ = @ + 2]

MinifyOther(m) ==
  LET ch == At(m.input_, m.index_)
      m1 == IF \/ (m.prev_token_ = ch /\ (ch = Ord["+"] \/ ch = Ord["-"]))
               \/ (m.prev_token_ = kPlusPlusToken /\ ch = Ord["+"])
               \/ (m.prev_token_ = kMinusMinusToken /\ ch = Ord["-"])
               \/ (m.prev_token_ = Ord["<"] /\ ch = Ord["!"])
               \/ (m.prev_token_ = Ord["!"] /\ ch = Ord["-"])
            THEN InsertSpaceIfNeeded(m) ELSE m
      m2 == ChangeToken(m1, ch)
  IN  [m2 EXCEPT !.output_ = push_back(@, ch), !.index_ = @ + 1]

\* The body of the while loop.
MinifyIteration(m) ==
  LET b == MinifyBranch(m)
  IN  CASE b = "linebreak" -> MinifyLinebreak(m)
        [] b = "space" -> MinifySpace(m)
        [] b = "string" -> ConsumeString(m)
        [] b = "line_comment" -> ConsumeLineComment(m)
        [] b = "block_comment" -> ConsumeBlockComment(m)
        [] b = "division" -> MinifyDivision(m)
        [] b = "regex" -> ConsumeRegex(m)
        [] b = "name" -> ConsumeNameOrNumber(m)
        [] b = "sgml_open" -> ConsumeLineComment(m)
        [] b = "sgml_close" -> ConsumeLineComment(m)
        [] b = "plusplus" -> MinifyPlusPlus(m)
        [] b = "minusminus" -> MinifyMinusMinus(m)
        [] OTHER -> MinifyOther(m)

\* The condition of the while loop.
MinifyContinues(m) == m.index_ < Len(m.input_) /\ ~m.error_

\* Minifier::Minify: the whole loop.
RECURSIVE Minify(_)
Minify(m) == IF MinifyContinues(m) THEN Minify(MinifyIteration(m)) ELSE m

\* The null pointer, where a consumer is expected.
NULL == [kind |-> "NULL"]

\* Minifier::GetOutput: the minifier after Minify and the consumer it
\* returns, or NULL.
GetOutput(m) ==
  LET m1 == Minify(m)
  IN  [minifier |-> m1,
       output |-> IF ~m1.error_ THEN m1.output_ ELSE NULL]

\* ------------------------------------------------------------------------
\* Entry points, as functions of the input and the caller's output argument:
\* the return value and the caller's argument after the call.
\* ------------------------------------------------------------------------

MinifyJs(input, out) ==
  LET g == GetOutput(Minifier(input, StringConsumer(out)))
  IN  [ok |-> g.output # NULL, out |-> g.minifier.output_.output_]

GetMinifiedJsSize(input, minimized_size) ==
  LET g == GetOutput(Minifier(input, SizeConsumer(NULL)))
  IN  IF g.output # NULL
      THEN [ok |-> TRUE, minimized_size |-> g.output.size_]
      ELSE [ok |-> FALSE, minimized_size |-> minimized_size]

MinifyJsAndCollapseStrings(input, out) ==
  LET g == GetOutput(EnableStringCollapse(Minifier(input, StringConsumer(out))))
  IN  [ok |-> g.output # NULL, out |-> g.minifier.output_.output_]

GetMinifiedStringCollapsedJsSize(input, minimized_size) ==
  LET g == GetOutput(EnableStringCollapse(Minifier(input, SizeConsumer(NULL))))
  IN  IF g.output # NULL
      THEN [ok |-> TRUE, minimized_size |-> g.output.size_]
      ELSE [ok |-> FALSE, minimized_size |-> minimized_size]

\* ------------------------------------------------------------------------
\* Inputs of the model
\* ------------------------------------------------------------------------

\* The longest input is a concatenation of MaxPieces pieces.
MaxPieces == 3

\* Division, regex literals, escapes and character classes.
SlashPieces ==
  {Bytes(<<"a">>), Bytes(<<" ">>), Bytes(<<"\n">>), Bytes(<<"/">>),
   Bytes(<<"*">>), Bytes(<<"\\">>), Bytes(<<"[">>), Bytes(<<"]">>)}

\* Block comments, line comments and conditional compilation comments.
CommentPieces ==
  {Bytes(<<"/", "*">>), Bytes(<<"*", "/">>), Bytes(<<"/", "/">>),
   Bytes(<<"@">>), Bytes(<<"a">>), Bytes(<<"\n">>), Bytes(<<"\r">>),
   Bytes(<<"/">>)}

\* The operators +, -, ++ and --.
SignPieces ==
  {Bytes(<<"i">>), Bytes(<<" ">>), Bytes(<<"\n">>), Bytes(<<"+">>),
   Bytes(<<"-">>), Bytes(<<"+", "+">>), Bytes(<<"-", "-">>), Bytes(<<">">>)}

\* The SGML comment markers.
SgmlPieces ==
  {Bytes(<<"<">>), Bytes(<<"!">>), Bytes(<<"-", "-">>),
   Bytes(<<"-", "-", ">">>), Bytes(<<"<", "!", "-", "-">>), Bytes(<<"\n">>),
   Bytes(<<"i">>), Bytes(<<"\t">>)}

\* String literals with the three delimiters, escapes and the escaped
\* line terminator.
StringPieces ==
  {Bytes(<<"\"">>), Bytes(<<"'">>), <<Backquote>>, Bytes(<<"\\">>),
   Bytes(<<"x">>), Bytes(<<"\\", "\n">>), Bytes(<<"\"", "\"">>),
   Bytes(<<"/">>)}

\* Keywords, whole literals and punctuators before a slash or a linebreak.
WordPieces ==
  {Bytes(<<"r", "e", "t", "u", "r", "n">>), Bytes(<<"/", "x", "/">>),
   Bytes(<<"/", "*", "@", "*", "/">>), Bytes(<<")">>), Bytes(<<"}">>),
   Bytes(<<"+", "+">>), Bytes(<<"\n">>), Bytes(<<"/">>)}

\* Tokens that end a primary expression and tokens that follow ++ and --.
PunctuatorPieces ==
  {Bytes(<<"\"", "\"">>), Bytes(<<"]">>), Bytes(<<"/">>), Bytes(<<"(">>),
   Bytes(<<";">>), Bytes(<<"-", "-">>), Bytes(<<"+", "+">>), Bytes(<<"\n">>)}

\* All concatenations of at most n pieces of P.
RECURSIVE Concatenations(_, _)
Concatenations(P, n) ==
  IF n = 0 THEN {<< >>}
  ELSE LET shorter == Concatenations(P, n - 1)
       IN  shorter \cup {w \o p : w \in shorter, p \in P}

\* The literal inputs of the unit tests and of the design document.
kUnminified ==
  Bytes(<<"f", "u", "n", "c", "t", "i", "o", "n", " ", "(", ")", " ", "{",
          " ", "f", "o", "o", "(", ")", ";", " ", "}">>)

kMinified ==
  Bytes(<<"\n", "f", "u", "n", "c", "t", "i", "o", "n", "(", ")", "{",
          "f", "o", "o", "(", ")", ";", "}">>)

ScenarioInputs ==
  {kUnminified, kMinified,
   Bytes(<<"r", "e", "t", "u", "r", "n", " ", "/", "x", "/", "g">>),
   Bytes(<<"a", " ", "/", "b", "/", " ", "g">>),
   Bytes(<<"i", "\n", "+", "+">>),
   Bytes(<<"/", "*", " ", "n", "o", "t", " ", "v", "a", "l", "i", "d", " ",
           "j", "a", "v", "a", "s", "c", "r", "i", "p", "t">>),
   Bytes(<<"/", "*", "@", "c", "c", "_", "o", "n", " ", "@", "*", "/",
           "v", "a", "r", " ", "x", "=", "1", ";">>),
   Bytes(<<"a", "\n", "/", "*", "@", "c", "c", "_", "o", "n", "*", "/">>),
   Bytes(<<"a", "\n", "/", "*", "c", "c", "_", "o", "n", "@", "*", "/">>),
   Bytes(<<"a", "\n", "/", "*", "@", "c", "c", "@", "*", "/", "b">>),
   Bytes(<<"]", "\n", "\"", "\"", "\n", ";">>),
   Bytes(<<"a", " ", "/", " ", "/", "x", "/">>),
   Bytes(<<"!", "\n", "-", "i">>),
   Bytes(<<"i", "-", "-", ">", "\n", "-", "-", ">", "x", "\n",
           "<", "!", "-", "-", "\n", "i">>),
   Bytes(<<"a", " ", "\n", " ", "b", " ", "\n">>)}

Inputs ==
  Concatenations(SlashPieces, MaxPieces) \cup
  Concatenations(CommentPieces, MaxPieces) \cup
  Concatenations(SignPieces, MaxPieces) \cup
  Concatenations(SgmlPieces, MaxPieces) \cup
  Concatenations(StringPieces, MaxPieces) \cup
  Concatenations(WordPieces, MaxPieces) \cup
  Concatenations(PunctuatorPieces, MaxPieces) \cup ScenarioInputs

\* What the caller's output string may hold before the call.
OutBefore == {<< >>, Bytes(<<"x">>)}

StringEntryPoints == {"MinifyJs", "MinifyJsAndCollapseStrings"}
SizeEntryPoints == {"GetMinifiedJsSize", "GetMinifiedStringCollapsedJsSize"}
CollapsingEntryPoints ==
  {"MinifyJsAndCollapseStrings", "GetMinifiedStringCollapsedJsSize"}

\* ------------------------------------------------------------------------
\* URLs and resources (uri_util, resource_util and Resource are collaborators
\* of resource_collection.cc; they follow the design document)
\* ------------------------------------------------------------------------

\* A URL is a byte string: one host byte, one path byte and, optionally, a
\* number sign and a fragment. The empty string and strings that do not start
\* with a host byte are not valid URIs.
HostBytes == {Ord["g"], Ord["h"]}

IsValidUri(uri) == uri # << >> /\ uri[1] \in HostBytes

\* The bytes of uri before the first number sign.
RECURSIVE StripFragment(_)
StripFragment(uri) ==
  IF uri = << >> \/ Head(uri) = Ord["#"] THEN << >>
  ELSE <<Head(uri)>> \o StripFragment(Tail(uri))

\* uri_util::GetUriWithoutFragment(uri, &out): false for an invalid URI.
GetUriWithoutFragment(uri) ==
  IF IsValidUri(uri) THEN [ok |-> TRUE, out |-> StripFragment(uri)]
  ELSE [ok |-> FALSE, out |-> << >>]

\* uri_util::CanonicalizeUrl(&url): the canonical form (fragment stripped)
\* of a valid URL; an invalid URL is left as it is.
CanonicalizeUrl(url) == IF IsValidUri(url) THEN StripFragment(url) ELSE url

\* operator< of std::string.
RECURSIVE StringLessThan(_, _)
StringLessThan(lhs, rhs) ==
  IF rhs = << >> THEN FALSE
  ELSE IF lhs = << >> THEN TRUE
  ELSE IF Head(lhs) # Head(rhs) THEN Head(lhs) < Head(rhs)
  ELSE StringLessThan(Tail(lhs), Tail(rhs))

\* A Resource object: address is the identity of the object, location_ the
\* resolved Location header (empty when there is none) and
\* request_start_time_millis_ is -1 when no start time was set.
Resource(address, url, status_code, location, start_time) ==
  [address |-> address, request_url_ |-> url, status_code_ |-> status_code,
   location_ |-> location, request_start_time_millis_ |-> start_time]

GetRequestUrl(resource) == resource.request_url_

GetResponseStatusCode(resource) == resource.status_code_

\* Resource::GetHost: the host of the request URL, empty for an invalid URL.
GetHost(resource) ==
  IF IsValidUri(resource.request_url_) THEN <<resource.request_url_[1]>>
  ELSE << >>

has_request_start_time_millis(resource) ==
  resource.request_start_time_millis_ >= 0

IsRequestStartTimeLessThan(lhs, rhs) ==
  lhs.request_start_time_millis_ < rhs.request_start_time_millis_

\* resource_util::IsRedirectStatus.
IsRedirectStatus(status_code) == status_code \in {301, 302, 303, 307}

\* Resource::GetResourceType() == REDIRECT.
IsRedirect(resource) == IsRedirectStatus(resource.status_code_)

\* resource_util::GetRedirectedUrl: the target of a redirect with a Location
\* header, and the empty string otherwise.
GetRedirectedUrl(resource) ==
  IF IsRedirect(resource) THEN resource.location_ ELSE << >>

\* ResourceFilter::IsAccepted: a filter is the set of hosts it rejects;
\* AllowAllResourceFilter rejects none.
AllowAllResourceFilter == {}

IsAccepted(resource_filter, resource) ==
  GetHost(resource) \notin resource_filter

\* ------------------------------------------------------------------------
\* std::map and std::stable_sort
\* ------------------------------------------------------------------------

\* map[key] = value.
MapPut(map, key, value) ==
  [k \in DOMAIN map \cup {key} |-> IF k = key THEN value ELSE map[k]]

\* map.erase(key).
MapErase(map, key) == [k \in DOMAIN map \ {key} |-> map[k]]

EmptyMap == [k \in {} |-> NULL]

\* The keys of a std::map<std::string, ...> in iteration order.
RECURSIVE SortedKeys(_)
SortedKeys(keys) ==
  IF keys = {} THEN << >>
  ELSE LET first == CHOOSE k \in keys :
                      \A other \in keys \ {k} : StringLessThan(k, other)
       IN  <<first>> \o SortedKeys(keys \ {first})

\* Insertion of one element in front of the first element that is not less.
RECURSIVE StableInsert_BeforeEqual(_, _)
StableInsert_BeforeEqual(sorted, resource) ==
  IF sorted = << >> THEN <<resource>>
  ELSE IF ~IsRequestStartTimeLessThan(Head(sorted), resource)
  THEN <<resource>> \o sorted
  ELSE <<Head(sorted)>> \o StableInsert_BeforeEqual(Tail(sorted), resource)

\* Insertion of one element behind every element that is not greater.
RECURSIVE StableInsert(_, _)
StableInsert(sorted, resource) ==
  IF sorted = << >> THEN <<resource>>
  ELSE IF IsRequestStartTimeLessThan(resource, Head(sorted))
  THEN <<resource>> \o sorted
  ELSE <<Head(sorted)>> \o StableInsert(Tail(sorted), resource)

\* std::stable_sort with ResourceRequestStartTimeLessThan.
RECURSIVE StableSort(_)
StableSort(resources) ==
  IF resources = << >> THEN << >>
  ELSE StableInsert(StableSort(SubSeq(resources, 1, Len(resources) - 1)),
                    resources[Len(resources)])

\* ------------------------------------------------------------------------
\* ResourceCollection
\* ------------------------------------------------------------------------

\* RedirectRegistry::RedirectRegistry. The chain vector is its elements and
\* the buffer that holds them; a chain pointer names a buffer and a slot of
\* it (slots count from 1).
RedirectRegistry ==
  [initialized_ |-> FALSE,
   redirect_chains_ |-> [buffer |-> 0, elems |-> << >>],
   resource_to_redirect_chain_map_ |-> EmptyMap]

\* ResourceCollection::ResourceCollection, with or without a filter.
ResourceCollection(resource_filter) ==
  [resource_filter_ |-> resource_filter,
   frozen_ |-> FALSE,
   resources_ |-> << >>,
   url_resource_map_ |-> EmptyMap,
   host_resource_map_ |-> EmptyMap,
   request_order_vector_ |-> << >>,
   primary_resource_url_ |-> << >>,
   redirect_registry_ |-> RedirectRegistry]

is_frozen(c) == c.frozen_

num_resources(c) == Len(c.resources_)

\* GetResource(idx), idx counting from 0.
GetResource(c, idx) == c.resources_[idx + 1]

\* The key that has_resource_with_url and GetResourceWithUrlOrNull look up.
LookupKey(url) ==
  LET without == GetUriWithoutFragment(url)
  IN  IF without.ok THEN without.out ELSE url

has_resource_with_url(c, url) == LookupKey(url) \in DOMAIN c.url_resource_map_

GetResourceWithUrlOrNull(c, url) ==
  IF LookupKey(url) \in DOMAIN c.url_resource_map_
  THEN c.url_resource_map_[LookupKey(url)]
  ELSE NULL

IsValidResource(c, resource) ==
  LET url == GetRequestUrl(resource)
  IN  IF url = << >> THEN FALSE
      ELSE IF has_resource_with_url(c, url) THEN FALSE
      ELSE IF GetResponseStatusCode(resource) <= 0 THEN FALSE
      ELSE IF ~IsAccepted(c.resource_filter_, resource) THEN FALSE
      ELSE TRUE

\* The ordering of a ResourceSet.
ResourceUrlLessThan(lhs, rhs) ==
  StringLessThan(GetRequestUrl(lhs), GetRequestUrl(rhs))

\* host_resource_map_[host].insert(resource): a ResourceSet holds one
\* resource for each request URL.
HostResourceMapInsert(map, host, resource) ==
  LET old == IF host \in DOMAIN map THEN map[host] ELSE {}
  IN  IF \E r \in old : /\ ~ResourceUrlLessThan(r, resource)
                        /\ ~ResourceUrlLessThan(resource, r)
      THEN MapPut(map, host, old)
      ELSE MapPut(map, host, old \cup {resource})

\* AddResource: the collection after the call and the returned bool.
AddResource(c, resource) ==
  IF is_frozen(c) THEN [collection |-> c, ret |-> FALSE]
  ELSE IF ~IsValidResource(c, resource) THEN [collection |-> c, ret |-> FALSE]
  ELSE LET url == GetRequestUrl(resource)
       IN  [collection |->
              [c EXCEPT !.resources_ = Append(@, resource),
                        !.url_resource_map_ = MapPut(@, url, resource),
                        !.host_resource_map_ =
                          HostResourceMapInsert(@, GetHost(resource), resource)],
            ret |-> TRUE]

\* GetResourcesInRequestOrder: NULL when request_order_vector_ is empty.
GetResourcesInRequestOrder(c) ==
  IF c.request_order_vector_ = << >> THEN NULL
  ELSE [kind |-> "ResourceVector", at |-> c.request_order_vector_]

\* GetMutableResource that hands out the resource of a frozen collection.
GetMutableResource_IgnoresFrozen(c, idx) == GetResource(c, idx)

GetMutableResource(c, idx) ==
  IF is_frozen(c) THEN NULL ELSE GetResource(c, idx)

GetMutableResourceWithUrlOrNull(c, url) ==
  IF is_frozen(c) THEN NULL ELSE GetResourceWithUrlOrNull(c, url)

SetPrimaryResourceUrl(c, url) ==
  IF is_frozen(c) THEN [collection |-> c, ret |-> FALSE]
  ELSE LET canon_url == CanonicalizeUrl(url)
       IN  IF ~has_resource_with_url(c, canon_url)
           THEN [collection |-> c, ret |-> FALSE]
           ELSE [collection |-> [c EXCEPT !.primary_resource_url_ = canon_url],
                 ret |-> TRUE]

GetPrimaryResourceOrNull(c) ==
  LET primary_resource_url == LookupKey(c.primary_resource_url_)
  IN  IF primary_resource_url = << >> THEN NULL
      ELSE GetResourceWithUrlOrNull(c, primary_resource_url)

\* ------------------------------------------------------------------------
\* RedirectGraph
\* ------------------------------------------------------------------------

RedirectGraph(resource_collection) ==
  [redirect_map_ |-> EmptyMap, destinations_ |-> {}, processed_ |-> {},
   resource_collection_ |-> resource_collection]

RedirectGraph_AddResource(g, resource) ==
  LET destination == GetRedirectedUrl(resource)
      source == GetRequestUrl(resource)
      targets == IF source \in DOMAIN g.redirect_map_
                 THEN g.redirect_map_[source] ELSE << >>
  IN  IF destination # << >>
      THEN [g EXCEPT !.redirect_map_ =
                       MapPut(@, source, Append(targets, destination)),
                     !.destinations_ = @ \cup {destination}]
      ELSE g

\* The roots that are destinations (secondary roots), or those that are not
\* (primary roots), in order.
RECURSIVE SelectRoots(_, _, _)
SelectRoots(sources, destinations, secondary) ==
  IF sources = << >> THEN << >>
  ELSE (IF (Head(sources) \in destinations) = secondary
        THEN <<Head(sources)>> ELSE << >>)
       \o SelectRoots(Tail(sources), destinations, secondary)

\* The roots with the redirect targets in front.
GetPriorizedRoots_SecondaryFirst(g) ==
  LET sources == SortedKeys(DOMAIN g.redirect_map_)
      primary_roots == SelectRoots(sources, g.destinations_, FALSE)
      secondary_roots == SelectRoots(sources, g.destinations_, TRUE)
  IN  secondary_roots \o primary_roots

GetPriorizedRoots(g) ==
  LET sources == SortedKeys(DOMAIN g.redirect_map_)
      primary_roots == SelectRoots(sources, g.destinations_, FALSE)
      secondary_roots == SelectRoots(sources, g.destinations_, TRUE)
  IN  primary_roots \o secondary_roots

RECURSIVE Reverse(_)
Reverse(seq) ==
  IF seq = << >> THEN << >> ELSE Reverse(Tail(seq)) \o <<Head(seq)>>

\* The walk without the test for NULL: the result of the lookup is pushed
\* whatever it is.
RECURSIVE RedirectChainWalk_PushesMissing(_, _, _)
RedirectChainWalk_PushesMissing(g, work_stack, chain) ==
  IF work_stack = << >> THEN [graph |-> g, chain |-> chain]
  ELSE LET current == work_stack[Len(work_stack)]
           rest == SubSeq(work_stack, 1, Len(work_stack) - 1)
           resource == GetResourceWithUrlOrNull(g.resource_collection_, current)
       IN  IF current \in g.processed_
           THEN RedirectChainWalk_PushesMissing(g, rest,
                                                Append(chain, resource))
           ELSE LET targets == IF current \in DOMAIN g.redirect_map_
                               THEN g.redirect_map_[current] ELSE << >>
                IN  RedirectChainWalk_PushesMissing(
                      [g EXCEPT !.processed_ = @ \cup {current}],
                      rest \o Reverse(targets),
                      Append(chain, resource))

\* The walk with the test of processed_ in front of the push_back: a
\* resource that is met again is left out of the chain.
RECURSIVE RedirectChainWalk_TestsBeforePush(_, _, _)
RedirectChainWalk_TestsBeforePush(g, work_stack, chain) ==
  IF work_stack = << >> THEN [graph |-> g, chain |-> chain]
  ELSE LET current == work_stack[Len(work_stack)]
           rest == SubSeq(work_stack, 1, Len(work_stack) - 1)
           resource == GetResourceWithUrlOrNull(g.resource_collection_, current)
       IN  IF resource = NULL \/ current \in g.processed_
           THEN RedirectChainWalk_TestsBeforePush(g, rest, chain)
           ELSE LET targets == IF current \in DOMAIN g.redirect_map_
                               THEN g.redirect_map_[current] ELSE << >>
                IN  RedirectChainWalk_TestsBeforePush(
                      [g EXCEPT !.processed_ = @ \cup {current}],
                      rest \o Reverse(targets),
                      Append(chain, resource))

\* The while loop of PopulateRedirectChainResult: the graph and the chain
\* when the work stack is empty. (redirect_map_[current] adds an empty entry
\* for a URL that is no source; the roots were taken before, and the entry
\* has no targets.)
RECURSIVE RedirectChainWalk(_, _, _)
RedirectChainWalk(g, work_stack, chain) ==
  IF work_stack = << >> THEN [graph |-> g, chain |-> chain]
  ELSE LET current == work_stack[Len(work_stack)]
           rest == SubSeq(work_stack, 1, Len(work_stack) - 1)
           resource == GetResourceWithUrlOrNull(g.resource_collection_, current)
       IN  IF resource = NULL THEN RedirectChainWalk(g, rest, chain)
           ELSE IF current \in g.processed_
           THEN RedirectChainWalk(g, rest, Append(chain, resource))
           ELSE LET targets == IF current \in DOMAIN g.redirect_map_
                               THEN g.redirect_map_[current] ELSE << >>
                IN  RedirectChainWalk(
                      [g EXCEPT !.processed_ = @ \cup {current}],
                      rest \o Reverse(targets),
                      Append(chain, resource))

PopulateRedirectChainResult(g, root, chain) ==
  RedirectChainWalk(g, <<root>>, chain)

\* The loop without the test of processed_: every root gets a chain.
RECURSIVE AppendChainsOfRoots_IgnoresProcessed(_, _, _)
AppendChainsOfRoots_IgnoresProcessed(g, roots, chains) ==
  IF roots = << >> THEN chains
  ELSE LET walk == PopulateRedirectChainResult(g, Head(roots), << >>)
       IN  AppendChainsOfRoots_IgnoresProcessed(walk.graph, Tail(roots),
                                                Append(chains, walk.chain))

\* The for loop of AppendRedirectChainResults over the remaining roots.
RECURSIVE AppendChainsOfRoots(_, _, _)
AppendChainsOfRoots(g, roots, chains) ==
  IF roots = << >> THEN chains
  ELSE IF Head(roots) \in g.processed_
  THEN AppendChainsOfRoots(g, Tail(roots), chains)
  ELSE LET walk == PopulateRedirectChainResult(g, Head(roots), << >>)
       IN  AppendChainsOfRoots(walk.graph, Tail(roots),
                               Append(chains, walk.chain))

AppendRedirectChainResults(g, chains) ==
  AppendChainsOfRoots(g, GetPriorizedRoots(g), chains)

\* ------------------------------------------------------------------------
\* RedirectRegistry
\* ------------------------------------------------------------------------

\* The address of slot number slot of the buffer of chains.
ChainPointer(chains, slot) == [buffer |-> chains.buffer, slot |-> slot]

\* The pointer refers to an element of the vector as it is now.
IsLiveChain(chains, pointer) ==
  /\ pointer.buffer = chains.buffer
  /\ pointer.slot \in 1..Len(chains.elems)

\* The inner loop of the mapping in BuildRedirectChains: every member of
\* chain, from position i on, is mapped to pointer.
RECURSIVE MapChainMembers(_, _, _, _)
MapChainMembers(map, chain, i, pointer) ==
  IF i > Len(chain) THEN map
  ELSE MapChainMembers(MapPut(map, chain[i], pointer), chain, i + 1, pointer)

\* The outer loop of the mapping in BuildRedirectChains from slot on.
RECURSIVE MapResourcesToChains(_, _, _)
MapResourcesToChains(map, chains, slot) ==
  IF slot > Len(chains.elems) THEN map
  ELSE MapResourcesToChains(
         MapChainMembers(map, chains.elems[slot], 1,
                         ChainPointer(chains, slot)),
         chains, slot + 1)

\* The first loop of BuildRedirectChains: the graph after the resources
\* from index idx on have been added.
RECURSIVE AddResourcesToGraph(_, _, _)
AddResourcesToGraph(g, c, idx) ==
  IF idx >= num_resources(c) THEN g
  ELSE AddResourcesToGraph(RedirectGraph_AddResource(g, GetResource(c, idx)),
                           c, idx + 1)

\* BuildRedirectChains: the vector is cleared and filled in a buffer of its
\* own; the pointers are taken when it is complete.
BuildRedirectChains(registry, resource_collection) ==
  LET redirect_graph ==
        AddResourcesToGraph(RedirectGraph(resource_collection),
                            resource_collection, 0)
      chains == [buffer |-> registry.redirect_chains_.buffer + 1,
                 elems |-> AppendRedirectChainResults(redirect_graph, << >>)]
  IN  [registry EXCEPT
         !.redirect_chains_ = chains,
         !.resource_to_redirect_chain_map_ =
           MapResourcesToChains(@, chains, 1)]

\* The for loop without the break: it goes on behind the first resource
\* that is no redirect.
RECURSIVE FixUpChainFrom_WithoutBreak(_, _, _)
FixUpChainFrom_WithoutBreak(resources, i, chain) ==
  IF i >= Len(resources) THEN chain
  ELSE IF IsRedirect(resources[i + 1]) \/ i > 0
  THEN FixUpChainFrom_WithoutBreak(resources, i + 1,
                                   Append(chain, resources[i + 1]))
  ELSE chain

\* The for loop of BuildFixUpRedirectChain from position i of the
\* request-ordered resources (positions count from 0).
RECURSIVE FixUpChainFrom(_, _, _)
FixUpChainFrom(resources, i, chain) ==
  IF i >= Len(resources) THEN chain
  ELSE IF IsRedirect(resources[i + 1])
  THEN FixUpChainFrom(resources, i + 1, Append(chain, resources[i + 1]))
  ELSE IF i > 0 THEN Append(chain, resources[i + 1])
  ELSE chain

BuildFixUpRedirectChain(chain, resource_collection) ==
  LET resources == GetResourcesInRequestOrder(resource_collection)
  IN  IF resources = NULL THEN chain
      ELSE FixUpChainFrom(resources.at, 0, chain)

\* GetRedirectChainOrNull: the stored chain pointer, or NULL.
GetRedirectChainOrNull(registry, resource) ==
  IF resource = NULL THEN NULL
  ELSE IF resource \notin DOMAIN registry.resource_to_redirect_chain_map_
  THEN NULL
  ELSE registry.resource_to_redirect_chain_map_[resource]

\* map.erase of every member of chain from position i on.
RECURSIVE EraseChainMembers(_, _, _)
EraseChainMembers(map, chain, i) ==
  IF i > Len(chain) THEN map
  ELSE EraseChainMembers(MapErase(map, chain[i]), chain, i + 1)

\* vector::erase of the element in slot: the elements behind it move one
\* slot down; the buffer stays.
VectorErase(chains, slot) ==
  [chains EXCEPT !.elems = SubSeq(@, 1, slot - 1) \o
                           SubSeq(@, slot + 1, Len(@))]

\* The removal loop with an iterator that is advanced after an erase too:
\* the chain behind an erased one is not looked at.
RECURSIVE RemoveFixedUpChains_AdvancesAfterErase(_, _, _)
RemoveFixedUpChains_AdvancesAfterErase(registry, fixup_chain, slot) ==
  LET chains == registry.redirect_chains_
  IN  IF slot > Len(chains.elems) THEN registry
      ELSE LET chain == chains.elems[slot]
           IN  IF chain = << >>
               THEN RemoveFixedUpChains_AdvancesAfterErase(
                      registry, fixup_chain, slot + 1)
               ELSE IF \E k \in 1..Len(fixup_chain) : fixup_chain[k] = chain[1]
               THEN RemoveFixedUpChains_AdvancesAfterErase(
                      [registry EXCEPT
                         !.resource_to_redirect_chain_map_ =
                           EraseChainMembers(@, chain, 1),
                         !.redirect_chains_ = VectorErase(@, slot)],
                      fixup_chain, slot + 1)
               ELSE RemoveFixedUpChains_AdvancesAfterErase(
                      registry, fixup_chain, slot + 1)

\* The removal loop of the fix-up with the iterator at slot.
RECURSIVE RemoveFixedUpChains(_, _, _)
RemoveFixedUpChains(registry, fixup_chain, slot) ==
  LET chains == registry.redirect_chains_
  IN  IF slot > Len(chains.elems) THEN registry
      ELSE LET chain == chains.elems[slot]
           IN  IF chain = << >>
               THEN RemoveFixedUpChains(registry, fixup_chain, slot + 1)
               ELSE IF \E k \in 1..Len(fixup_chain) : fixup_chain[k] = chain[1]
               THEN RemoveFixedUpChains(
                      [registry EXCEPT
                         !.resource_to_redirect_chain_map_ =
                           EraseChainMembers(@, chain, 1),
                         !.redirect_chains_ = VectorErase(@, slot)],
                      fixup_chain, slot)
               ELSE RemoveFixedUpChains(registry, fixup_chain, slot + 1)

\* vector::push_back. The vector moves to a new buffer when it is full; it
\* is not full after an erase, and otherwise relocates says whether the
\* capacity that the library chose is used up.
VectorPushBack(chains, chain, may_be_full, relocates) ==
  [buffer |-> IF may_be_full /\ relocates
              THEN chains.buffer + 1 ELSE chains.buffer,
   elems |-> Append(chains.elems, chain)]

\* The replacement of the fix-up: the body of the if statement of Init.
FixUpReplace(registry, fixup_chain, relocates) ==
  LET removed == RemoveFixedUpChains(registry, fixup_chain, 1)
      may_be_full == Len(removed.redirect_chains_.elems) =
                     Len(registry.redirect_chains_.elems)
      chains == VectorPushBack(removed.redirect_chains_, fixup_chain,
                               may_be_full, relocates)
      primary_chain == ChainPointer(chains, Len(chains.elems))
  IN  [removed EXCEPT
         !.redirect_chains_ = chains,
         !.resource_to_redirect_chain_map_ =
           MapChainMembers(@, fixup_chain, 1, primary_chain)]

\* Init that replaces whenever there is a fix-up chain.
RedirectRegistry_Init_Replaces(registry, resource_collection, relocates) ==
  LET built == IF ~registry.initialized_ /\ is_frozen(resource_collection)
               THEN [BuildRedirectChains(registry, resource_collection)
                       EXCEPT !.initialized_ = TRUE]
               ELSE registry
      fixup_chain == BuildFixUpRedirectChain(<< >>, resource_collection)
  IN  IF fixup_chain = << >> THEN built
      ELSE FixUpReplace(built, fixup_chain, relocates)

\* RedirectRegistry::Init.
RedirectRegistry_Init(registry, resource_collection, relocates) ==
  LET built == IF ~registry.initialized_ /\ is_frozen(resource_collection)
               THEN [BuildRedirectChains(registry, resource_collection)
                       EXCEPT !.initialized_ = TRUE]
               ELSE registry
      fixup_chain == BuildFixUpRedirectChain(<< >>, resource_collection)
      primary == GetPrimaryResourceOrNull(resource_collection)
      primary_resource == IF primary = NULL
                          THEN fixup_chain[Len(fixup_chain)] ELSE primary
      primary_chain == GetRedirectChainOrNull(built, primary_resource)
  IN  IF fixup_chain = << >> THEN built
      ELSE IF \/ primary_chain = NULL
              \/ Len(built.redirect_chains_.elems[primary_chain.slot])
                   < Len(fixup_chain)
      THEN FixUpReplace(built, fixup_chain, relocates)
      ELSE built

\* Freeze that leaves the registry as it was.
Freeze_WithoutRegistry(c, relocates) ==
  LET have_start_times_for_all_resources ==
        \A idx \in 0..(num_resources(c) - 1) :
          has_request_start_time_millis(GetResource(c, idx))
      ordered == IF have_start_times_for_all_resources
                 THEN [c EXCEPT !.request_order_vector_ =
                                  StableSort(c.resources_)]
                 ELSE c
  IN  [collection |-> [ordered EXCEPT !.frozen_ = TRUE], ret |-> TRUE]

\* ResourceCollection::Freeze: the collection after the call and the
\* returned bool.
Freeze(c, relocates) ==
  LET have_start_times_for_all_resources ==
        \A idx \in 0..(num_resources(c) - 1) :
          has_request_start_time_millis(GetResource(c, idx))
      ordered == IF have_start_times_for_all_resources
                 THEN [c EXCEPT !.request_order_vector_ =
                                  StableSort(c.resources_)]
                 ELSE c
      frozen == [ordered EXCEPT !.frozen_ = TRUE]
  IN  [collection |->
         [frozen EXCEPT !.redirect_registry_ =
                          RedirectRegistry_Init(@, frozen, relocates)],
       ret |-> TRUE]

\* The chain that a pointer refers to: the element in its slot when the
\* pointer is live.
ChainAt(registry, pointer) == registry.redirect_chains_.elems[pointer.slot]

\* What the read of chain->back() can give: the last element of a live,
\* non-empty chain; anything when the pointer dangles or the chain is
\* empty.
Crash == [kind |-> "Crash"]

FinalRedirectTargets(c, resource) ==
  LET registry == c.redirect_registry_
      chain == GetRedirectChainOrNull(registry, resource)
  IN  IF chain = NULL THEN {resource}
      ELSE IF /\ IsLiveChain(registry.redirect_chains_, chain)
              /\ ChainAt(registry, chain) # << >>
      THEN {ChainAt(registry, chain)[Len(ChainAt(registry, chain))]}
      ELSE {c.resources_[i] : i \in 1..Len(c.resources_)} \cup {NULL, Crash}

\* ------------------------------------------------------------------------
\* The pages that are loaded into a collection
\* ------------------------------------------------------------------------

\* The most resources that a collection is given room for.
MaxResources == 3

Url(text) == Bytes(text)

\* A resource as its caller builds it, before it has an address.
NewResource(url, status_code, location, start_time) ==
  Resource(0, url, status_code, location, start_time)

NoLocation == << >>
NoStartTime == -1

\* URLs with and without a fragment, the empty URL, an invalid URI and a
\* status code that is not positive.
UrlHar ==
  [resource_filter |-> AllowAllResourceFilter,
   resources |->
     {NewResource(Url(<<"h", "a">>), 200, NoLocation, NoStartTime),
      NewResource(Url(<<"h", "a", "#", "x">>), 200, NoLocation, NoStartTime),
      NewResource(Url(<< >>), 200, NoLocation, NoStartTime),
      NewResource(Url(<<"%">>), 200, NoLocation, NoStartTime),
      NewResource(Url(<<"h", "b">>), 0, NoLocation, 1)}]

\* A filter that rejects the host g.
FilterHar ==
  [resource_filter |-> {Url(<<"g">>)},
   resources |->
     {NewResource(Url(<<"h", "a">>), 200, NoLocation, 1),
      NewResource(Url(<<"g", "a">>), 200, NoLocation, 2),
      NewResource(Url(<<"h", "b">>), 302, Url(<<"g", "a">>), 2),
      NewResource(Url(<<"h", "b">>), -1, NoLocation, 3)}]

\* Resources with equal, with different and without start times.
TimeHar ==
  [resource_filter |-> AllowAllResourceFilter,
   resources |->
     {NewResource(Url(<<"h", "a">>), 200, NoLocation, 2),
      NewResource(Url(<<"h", "b">>), 200, NoLocation, 1),
      NewResource(Url(<<"g", "c">>), 200, NoLocation, 1),
      NewResource(Url(<<"g", "d">>), 302, Url(<<"h", "a">>), 1),
      NewResource(Url(<<"h", "e">>), 200, NoLocation, NoStartTime)}]

\* A to B to C, the loop of A and B, and two redirects to C.
ChainHar ==
  [resource_filter |-> AllowAllResourceFilter,
   resources |->
     {NewResource(Url(<<"h", "a">>), 302, Url(<<"h", "b">>), NoStartTime),
      NewResource(Url(<<"h", "b">>), 302, Url(<<"h", "c">>), NoStartTime),
      NewResource(Url(<<"h", "c">>), 200, NoLocation, NoStartTime),
      NewResource(Url(<<"h", "b">>), 302, Url(<<"h", "a">>), NoStartTime),
      NewResource(Url(<<"h", "d">>), 302, Url(<<"h", "c">>), NoStartTime)}]

\* A landing page A whose target is missing, its terminus C, a redirect to
\* C that was observed in its place, and redirects beside and before A.
FixUpHar ==
  [resource_filter |-> AllowAllResourceFilter,
   resources |->
     {NewResource(Url(<<"h", "a">>), 302, Url(<<"h", "b">>), 1),
      NewResource(Url(<<"h", "d">>), 302, Url(<<"h", "c">>), 2),
      NewResource(Url(<<"h", "c">>), 200, NoLocation, 3),
      NewResource(Url(<<"h", "e">>), 302, Url(<<"h", "z">>), 4),
      NewResource(Url(<<"h", "f">>), 302, Url(<<"h", "a">>), 5)}]

\* Two redirects B and D to one target C, and a page T that was requested
\* between B and C.
SharedTargetHar ==
  [resource_filter |-> AllowAllResourceFilter,
   resources |->
     {NewResource(Url(<<"h", "b">>), 302, Url(<<"h", "c">>), 1),
      NewResource(Url(<<"h", "t">>), 200, NoLocation, 2),
      NewResource(Url(<<"h", "c">>), 200, NoLocation, 3),
      NewResource(Url(<<"h", "d">>), 302, Url(<<"h", "c">>), 4)}]

Hars == {UrlHar, FilterHar, TimeHar, ChainHar, FixUpHar, SharedTargetHar}

\* The resources that the caller adds of a page: the small page of the
\* shared target is added whole.
RoomOf(page) ==
  IF page = SharedTargetHar THEN MaxResources + 1 ELSE MaxResources

\* No page: the minifier runs without a collection.
NoHar == [resource_filter |-> AllowAllResourceFilter, resources |-> {}]

\* The URLs that callers ask for: request URLs of the pages, with and
\* without a fragment.
UrlArguments ==
  {Url(<<"h", "a">>), Url(<<"h", "a", "#", "x">>),
   Url(<<"h", "c", "#", "y">>), Url(<<"h", "d">>)}

\* The values that a call record holds: a bool, a URL or an index, each in a
\* record of its own kind, beside resources, chain pointers and NULL.
Bool(value) == [bool |-> value]

UrlArgument(url) == [url |-> url]

Index(idx) == [idx |-> idx]

NoCall == [op |-> "none", arg |-> NULL, ret |-> NULL]

\* ------------------------------------------------------------------------
\* ImageConverter (image_converter.cc): the scanline readers and writers
\* ------------------------------------------------------------------------

\* A ScanlineReaderInterface: next_ counts the scanlines that were read, and
\* the read of scanline number fails_at_ fails (no read fails when it is 0).
ScanlineReader(lines, fails_at) ==
  [lines_ |-> lines, next_ |-> 0, fails_at_ |-> fails_at]

HasMoreScanLines(reader) == reader.next_ < Len(reader.lines_)

\* ReadNextScanline(&scan_row): the bool, the reader after the call, and
\* the row that it hands out.
ReadNextScanline(reader, scan_row) ==
  IF reader.next_ + 1 = reader.fails_at_
  THEN [ok |-> FALSE, reader |-> reader, scan_row |-> scan_row]
  ELSE [ok |-> TRUE, reader |-> [reader EXCEPT !.next_ = @ + 1],
        scan_row |-> reader.lines_[reader.next_ + 1]]

\* A ScanlineWriterInterface: written_ holds the rows that were written,
\* the write of row number fails_at_ fails (none when it is 0), finalizes_
\* says whether FinalizeWrite succeeds and finalized_ counts its calls.
ScanlineWriter(fails_at, finalizes) ==
  [written_ |-> << >>, fails_at_ |-> fails_at, finalizes_ |-> finalizes,
   finalized_ |-> 0]

WriteNextScanline(writer, scan_row) ==
  IF Len(writer.written_) + 1 = writer.fails_at_
  THEN [ok |-> FALSE, writer |-> writer]
  ELSE [ok |-> TRUE,
        writer |-> [writer EXCEPT !.written_ = Append(@, scan_row)]]

FinalizeWrite(writer) ==
  [ok |-> writer.finalizes_,
   writer |-> [writer EXCEPT !.finalized_ = @ + 1]]

\* ConvertImage at its entry: pc names the call that comes next, and the
\* local scan_row has no value yet.
ConvertImageEntry(reader, writer) ==
  [pc |-> "HasMoreScanLines", reader |-> reader, writer |-> writer,
   scan_row |-> [kind |-> "Uninitialized"], ret |-> NULL]

\* The test of the while loop.
ConvertImage_while(c) ==
  [c EXCEPT !.pc = IF HasMoreScanLines(c.reader)
                   THEN "ReadNextScanline" ELSE "FinalizeWrite"]

\* if (!reader->ReadNextScanline(&scan_row)) return false;
ConvertImage_read(c) ==
  LET read == ReadNextScanline(c.reader, c.scan_row)
  IN  [c EXCEPT !.reader = read.reader, !.scan_row = read.scan_row,
                !.pc = IF read.ok THEN "WriteNextScanline" ELSE "return",
                !.ret = IF read.ok THEN @ ELSE Bool(FALSE)]

\* The write whose result is not looked at.
ConvertImage_write_IgnoresResult(c) ==
  LET write == WriteNextScanline(c.writer, c.scan_row)
  IN  [c EXCEPT !.writer = write.writer, !.pc = "HasMoreScanLines"]

\* if (!writer->WriteNextScanline(scan_row)) return false;
ConvertImage_write(c) ==
  LET write == WriteNextScanline(c.writer, c.scan_row)
  IN  [c EXCEPT !.writer = write.writer,
                !.pc = IF write.ok THEN "HasMoreScanLines" ELSE "return",
                !.ret = IF write.ok THEN @ ELSE Bool(FALSE)]

\* if (!writer->FinalizeWrite()) return false; return true;
ConvertImage_finalize(c) ==
  LET finalize == FinalizeWrite(c.writer)
  IN  [c EXCEPT !.writer = finalize.writer, !.pc = "return",
                !.ret = Bool(finalize.ok)]

\* ImageConverter::ConvertImage from c to its return.
RECURSIVE ConvertImageFrom(_)
ConvertImageFrom(c) ==
  CASE c.pc = "HasMoreScanLines" -> ConvertImageFrom(ConvertImage_while(c))
    [] c.pc = "ReadNextScanline" -> ConvertImageFrom(ConvertImage_read(c))
    [] c.pc = "WriteNextScanline" -> ConvertImageFrom(ConvertImage_write(c))
    [] c.pc = "FinalizeWrite" -> ConvertImageFrom(ConvertImage_finalize(c))
    [] c.pc = "return" -> c

ConvertImage(reader, writer) ==
  ConvertImageFrom(ConvertImageEntry(reader, writer))

\* ------------------------------------------------------------------------
\* ImageConverter: the conversions of a PNG and the choice of the smallest
\* ------------------------------------------------------------------------

\* A std::string of image data: the format of its content and its size;
\* the empty string has no content.
String(format, size) ==
  [format |-> IF size = 0 THEN "" ELSE format, size |-> size]

\* The ratios 0.8 as fractions (the sizes of the model are far below 2^50,
\* where the product of a size and the double 0.8 compares with a size as
\* the exact product does).
kMinJpegSavingsRatio == [num |-> 8, den |-> 10]

kMinWebpSavingsRatio == [num |-> 8, den |-> 10]

\* SelectSmallerImage: best is the pair of *best_image_type and *best_image,
\* and the result is the pair after the call.
SelectSmallerImage(new_image_type, new_image, threshold_ratio, best) ==
  LET new_image_size == new_image.size
  IN  IF /\ new_image_size > 0
         /\ \/ best.type = "IMAGE_NONE"
            \/ /\ new_image_type # "IMAGE_NONE"
               /\ best.image # NULL
               /\ new_image_size * threshold_ratio.den
                    < best.image.size * threshold_ratio.num
      THEN [type |-> new_image_type, image |-> new_image]
      ELSE best

\* A PNG file in is a string with what the PngScanlineReader finds in it:
\* InitializeRead succeeds on a readable file, supported says that its
\* width and height are positive and its pixel format is supported, and
\* lines are its scanlines.

\* ConvertPngToJpeg: the bool, the output, and whether the call got as far
\* as SetJpegCompressParams(options). encoded_size is the size of the JPEG
\* that the writer produces, 0 when its FinalizeWrite fails.
ConvertPngToJpeg(in, options, encoded_size) ==
  IF ~in.readable \/ ~in.supported
  THEN [ret |-> FALSE, out |-> String("", 0), reads_options |-> FALSE]
  ELSE LET done == ConvertImage(ScanlineReader(in.lines, 0),
                                ScanlineWriter(0, encoded_size > 0))
       IN  [ret |-> done.ret = Bool(TRUE),
            out |-> IF done.ret = Bool(TRUE)
                    THEN String("JPEG", encoded_size) ELSE String("", 0),
            reads_options |-> TRUE]

\* ConvertPngToWebp with the out-parameter webp_writer: the bool, the
\* output and *webp_writer after the call.
ConvertPngToWebp(in, encoded_size, webp_writer) ==
  IF webp_writer # NULL \/ ~in.readable
  THEN [ret |-> FALSE, out |-> String("", 0), webp_writer |-> webp_writer]
  ELSE IF ~in.supported
  THEN [ret |-> FALSE, out |-> String("", 0),
        webp_writer |-> ScanlineWriter(0, encoded_size > 0)]
  ELSE LET done == ConvertImage(ScanlineReader(in.lines, 0),
                                ScanlineWriter(0, encoded_size > 0))
       IN  [ret |-> done.ret = Bool(TRUE),
            out |-> IF done.ret = Bool(TRUE)
                    THEN String("WEBP", encoded_size) ELSE String("", 0),
            webp_writer |-> done.writer]

\* GetSmallestOfPngJpegWebp: what the call can do. codecs holds the sizes
\* that the encoders produce for the file (0 when an encoder fails). A
\* returned outcome tells the type, the output, whether ConvertPngToJpeg
\* was called, and the NULL pointers that the call dereferenced. The member
\* call on a NULL webp_writer (line 258), the read of options through a NULL
\* reference (line 136) and the read of the size of *best_lossy_image for a
\* NULL pointer (line 50) are undefined: the call crashes, or it goes on as
\* if the call had failed, the options were some options, and the candidate
\* had not qualified.
GetSmallestOfPngJpegWebp(in, jpeg_options, webp_config, codecs) ==
  LET lossless == ConvertPngToWebp(in, codecs.webp_lossless, NULL)
      webp_lossless_out ==
        IF lossless.ret THEN lossless.out ELSE String("", 0)
      webp_writer == lossless.webp_writer
      webp_lossy_out ==
        IF webp_config # NULL /\ webp_writer # NULL /\ codecs.webp_lossy > 0
        THEN String("WEBP", codecs.webp_lossy) ELSE String("", 0)
      png_out == IF in.readable /\ codecs.png > 0
                 THEN String("PNG", codecs.png) ELSE String("", 0)
      jpeg_attempted == jpeg_options = NULL
      jpeg == ConvertPngToJpeg(in, jpeg_options, codecs.jpeg)
      jpeg_out ==
        IF jpeg_attempted /\ jpeg.ret THEN jpeg.out ELSE String("", 0)
      one == [num |-> 1, den |-> 1]
      none == [type |-> "IMAGE_NONE", image |-> NULL]
      best_lossless ==
        SelectSmallerImage("IMAGE_PNG", png_out, one,
          SelectSmallerImage("IMAGE_WEBP", webp_lossless_out, one,
            SelectSmallerImage("IMAGE_NONE", in, one, none)))
      best_lossy ==
        SelectSmallerImage("IMAGE_JPEG", jpeg_out, one,
          SelectSmallerImage("IMAGE_WEBP", webp_lossy_out, one, none))
      threshold_ratio == IF best_lossy.type = "IMAGE_WEBP"
                         THEN kMinWebpSavingsRatio ELSE kMinJpegSavingsRatio
      best == IF best_lossy.image = NULL THEN best_lossless
              ELSE SelectSmallerImage(best_lossy.type, best_lossy.image,
                                      threshold_ratio, best_lossless)
      nil_dereferenced ==
        (IF webp_config # NULL /\ webp_writer = NULL
         THEN {"webp_writer"} ELSE {})
        \cup (IF jpeg_attempted THEN {"jpeg_options"} ELSE {})
        \cup (IF best_lossy.image = NULL THEN {"best_lossy_image"} ELSE {})
      undefined ==
        \/ webp_config # NULL /\ webp_writer = NULL
        \/ jpeg_attempted /\ jpeg.reads_options
        \/ best_lossy.image = NULL
      returned ==
        [kind |-> "return", best_image_type |-> best.type,
         out |-> IF best.image # NULL
                 THEN [format |-> best.image.format, size |-> best.image.size]
                 ELSE [format |-> in.format, size |-> in.size],
         jpeg_attempted |-> jpeg_attempted,
         nil_dereferenced |-> nil_dereferenced]
  IN  {returned} \cup
      (IF undefined
       THEN {[returned EXCEPT !.kind = "Crash",
                              !.best_image_type = "IMAGE_NONE",
                              !.out = String("", 0)]}
       ELSE {})

\* The scanlines of the images: line number k is the row k.
MaxScanlines == 3

RECURSIVE Scanlines(_)
Scanlines(n) == IF n = 0 THEN << >> ELSE Append(Scanlines(n - 1), n)

\* The sizes that the encoders give for the PNG file of 10 bytes: none, less
\* than 0.8 of the file, 0.8 of it, and more than the file.
EncodedSizes == {0, 7, 8, 12}

\* The PNG files: a good one, one with an unsupported pixel format, and one
\* that cannot be read.
Pngs ==
  {[format |-> "in", size |-> 10, readable |-> TRUE, supported |-> TRUE,
    lines |-> Scanlines(2)],
   [format |-> "in", size |-> 10, readable |-> TRUE, supported |-> FALSE,
    lines |-> Scanlines(2)],
   [format |-> "in", size |-> 10, readable |-> FALSE, supported |-> FALSE,
    lines |-> << >>]}

\* The options and the configuration that a caller provides.
JpegCompressionOptions == [kind |-> "JpegCompressionOptions"]

WebpConfiguration == [kind |-> "WebpConfiguration"]

NoConversion ==
  [pc |-> "none", reader |-> NULL, writer |-> NULL,
   scan_row |-> NULL, ret |-> NULL]

NoSelection == [op |-> "none"]

VARIABLES
  conversion,   \* the call of ConvertImage: its position, reader and writer
  selection     \* the call of GetSmallestOfPngJpegWebp and its outcome

ivars == <<conversion, selection>>

VARIABLES
  har,          \* the page: the resources that the caller has, and the filter
  collection,   \* the ResourceCollection object
  call          \* the last call of the caller: operation, argument, result

cvars == <<har, collection, call>>

\* ------------------------------------------------------------------------
\* The state machine of one call of an entry point
\* ------------------------------------------------------------------------

VARIABLES
  entry,           \* the entry point that was called
  minifier,        \* the Minifier object (its output_ is the consumer; a
                   \* StringConsumer writes straight into the caller's string)
  pc,              \* "Minify" inside the loop, "done" after the return
  out0,            \* the caller's output string before the call
  minimized_size,  \* the caller's int (size entry points), -1 before a write
  result           \* the returned bool, "none" before the return

jsvars == <<entry, minifier, pc, out0, minimized_size, result>>

vars == <<jsvars, cvars, ivars>>

\* The state after the entry point has constructed its Minifier.
JsInit ==
  /\ entry \in StringEntryPoints \cup SizeEntryPoints
  /\ out0 \in (IF entry \in StringEntryPoints THEN OutBefore ELSE {<< >>})
  /\ \E input \in Inputs :
       LET consumer == IF entry \in StringEntryPoints
                       THEN StringConsumer(out0) ELSE SizeConsumer(NULL)
           m == Minifier(input, consumer)
       IN  minifier = IF entry \in CollapsingEntryPoints
                      THEN EnableStringCollapse(m) ELSE m
  /\ pc = "Minify"
  /\ minimized_size = -1
  /\ result = "none"
  /\ har = NoHar
  /\ collection = ResourceCollection(har.resource_filter)
  /\ call = NoCall
  /\ conversion = NoConversion /\ selection = NoSelection

\* The loop of Minify is about to run an iteration that takes branch b.
AtBranch(b) ==
  /\ pc = "Minify"
  /\ MinifyContinues(minifier)
  /\ MinifyBranch(minifier) = b

\* One iteration of the loop: a line terminator.
ReadLinebreak ==
  /\ AtBranch("linebreak")
  /\ minifier' = MinifyLinebreak(minifier)
  /\ UNCHANGED <<entry, pc, out0, minimized_size, result, cvars, ivars>>

\* One iteration of the loop: a space or a tab.
ReadSpace ==
  /\ AtBranch("space")
  /\ minifier' = MinifySpace(minifier)
  /\ UNCHANGED <<entry, pc, out0, minimized_size, result, cvars, ivars>>

\* One iteration of the loop: a quote: a string literal.
ReadString ==
  /\ AtBranch("string")
  /\ minifier' = ConsumeString(minifier)
  /\ UNCHANGED <<entry, pc, out0, minimized_size, result, cvars, ivars>>

\* One iteration of the loop: two slashes: a line comment.
ReadLineComment ==
  /\ AtBranch("line_comment")
  /\ minifier' = ConsumeLineComment(minifier)
  /\ UNCHANGED <<entry, pc, out0, minimized_size, result, cvars, ivars>>

\* One iteration of the loop: slash and star: a block comment.
ReadBlockComment ==
  /\ AtBranch("block_comment")
  /\ minifier' = ConsumeBlockComment(minifier)
  /\ UNCHANGED <<entry, pc, out0, minimized_size, result, cvars, ivars>>

\* One iteration of the loop: a slash after a primary expression: division.
ReadDivision ==
  /\ AtBranch("division")
  /\ minifier' = MinifyDivision(minifier)
  /\ UNCHANGED <<entry, pc, out0, minimized_size, result, cvars, ivars>>

\* One iteration of the loop: any other slash: a regex literal.
ReadRegex ==
  /\ AtBranch("regex")
  /\ minifier' = ConsumeRegex(minifier)
  /\ UNCHANGED <<entry, pc, out0, minimized_size, result, cvars, ivars>>

\* One iteration of the loop: an identifier character.
ReadNameOrNumber ==
  /\ AtBranch("name")
  /\ minifier' = ConsumeNameOrNumber(minifier)
  /\ UNCHANGED <<entry, pc, out0, minimized_size, result, cvars, ivars>>

\* One iteration of the loop: the SGML comment opener.
ReadSgmlOpen ==
  /\ AtBranch("sgml_open")
  /\ minifier' = ConsumeLineComment(minifier)
  /\ UNCHANGED <<entry, pc, out0, minimized_size, result, cvars, ivars>>

\* One iteration of the loop: the SGML comment closer at the start of a line.
ReadSgmlClose ==
  /\ AtBranch("sgml_close")
  /\ minifier' = ConsumeLineComment(minifier)
  /\ UNCHANGED <<entry, pc, out0, minimized_size, result, cvars, ivars>>

\* One iteration of the loop: the ++ token.
ReadPlusPlus ==
  /\ AtBranch("plusplus")
  /\ minifier' = MinifyPlusPlus(minifier)
  /\ UNCHANGED <<entry, pc, out0, minimized_size, result, cvars, ivars>>

\* One iteration of the loop: the -- token.
ReadMinusMinus ==
  /\ AtBranch("minusminus")
  /\ minifier' = MinifyMinusMinus(minifier)
  /\ UNCHANGED <<entry, pc, out0, minimized_size, result, cvars, ivars>>

\* One iteration of the loop: any other character.
ReadOther ==
  /\ AtBranch("other")
  /\ minifier' = MinifyOther(minifier)
  /\ UNCHANGED <<entry, pc, out0, minimized_size, result, cvars, ivars>>

\* The loop has ended: GetOutput returns and the entry point returns.
Return ==
  /\ pc = "Minify"
  /\ ~MinifyContinues(minifier)
  /\ pc' = "done"
  /\ result' = ~minifier.error_
  /\ minimized_size' = IF entry \in SizeEntryPoints /\ ~minifier.error_
                       THEN minifier.output_.size_ ELSE minimized_size
  /\ UNCHANGED <<entry, minifier, out0, cvars, ivars>>

JsNext ==
  \/ ReadLinebreak \/ ReadSpace \/ ReadString \/ ReadLineComment
  \/ ReadBlockComment \/ ReadDivision \/ ReadRegex \/ ReadNameOrNumber
  \/ ReadSgmlOpen \/ ReadSgmlClose \/ ReadPlusPlus \/ ReadMinusMinus
  \/ ReadOther \/ Return

SpecMinify == JsInit /\ [][JsNext]_vars

\* The same call, run to its end: the thread that called the entry point
\* keeps running, so a step that can be taken is taken.
SpecMinifyRuns == JsInit /\ [][JsNext]_vars /\ WF_vars(JsNext)

\* ------------------------------------------------------------------------
\* The state machine of a ResourceCollection and its caller
\* ------------------------------------------------------------------------

\* The state after the constructor.
CollectionInit ==
  /\ har \in Hars
  /\ collection = ResourceCollection(har.resource_filter)
  /\ call = NoCall
  /\ entry = "none" /\ minifier = NULL /\ pc = "done" /\ out0 = << >>
  /\ minimized_size = -1 /\ result = "none"
  /\ conversion = NoConversion /\ selection = NoSelection

\* AddResource(new Resource(...)): the new object has an address of its own.
CallAddResource ==
  /\ is_frozen(collection) \/ num_resources(collection) < RoomOf(har)
  /\ \E r \in har.resources :
       LET resource == [r EXCEPT !.address = num_resources(collection) + 1]
           done == AddResource(collection, resource)
       IN  /\ collection' = done.collection
           /\ call' = [op |-> "AddResource", arg |-> resource,
                       ret |-> Bool(done.ret)]
  /\ UNCHANGED <<har, jsvars, ivars>>

CallSetPrimaryResourceUrl ==
  /\ \E url \in UrlArguments :
       LET done == SetPrimaryResourceUrl(collection, url)
       IN  /\ collection' = done.collection
           /\ call' = [op |-> "SetPrimaryResourceUrl",
                       arg |-> UrlArgument(url), ret |-> Bool(done.ret)]
  /\ UNCHANGED <<har, jsvars, ivars>>

\* GetMutableResource(idx) with an index in range.
CallGetMutableResource ==
  /\ \E idx \in 0..(num_resources(collection) - 1) :
       call' = [op |-> "GetMutableResource", arg |-> Index(idx),
                ret |-> GetMutableResource(collection, idx)]
  /\ UNCHANGED <<har, collection, jsvars, ivars>>

CallGetMutableResourceWithUrlOrNull ==
  /\ \E url \in UrlArguments :
       call' = [op |-> "GetMutableResourceWithUrlOrNull",
                arg |-> UrlArgument(url),
                ret |-> GetMutableResourceWithUrlOrNull(collection, url)]
  /\ UNCHANGED <<har, collection, jsvars, ivars>>

\* Freeze, called once (Init asserts that the registry is not initialized).
\* The library decides whether the chain vector is full when the fix-up
\* appends to it.
CallFreeze ==
  /\ ~is_frozen(collection)
  /\ \E relocates \in BOOLEAN :
       LET done == Freeze(collection, relocates)
       IN  /\ collection' = done.collection
           /\ call' = [op |-> "Freeze", arg |-> NULL,
                       ret |-> Bool(done.ret)]
  /\ UNCHANGED <<har, jsvars, ivars>>

\* GetResourcesInRequestOrder on a frozen collection.
CallGetResourcesInRequestOrder ==
  /\ is_frozen(collection)
  /\ call' = [op |-> "GetResourcesInRequestOrder", arg |-> NULL,
              ret |-> GetResourcesInRequestOrder(collection)]
  /\ UNCHANGED <<har, collection, jsvars, ivars>>

\* The resources that callers ask the registry about, and NULL.
ResourceArguments ==
  {collection.resources_[i] : i \in 1..num_resources(collection)}
    \cup {NULL}

\* GetRedirectChainOrNull on an initialized registry.
CallGetRedirectChainOrNull ==
  /\ collection.redirect_registry_.initialized_
  /\ \E resource \in ResourceArguments :
       call' = [op |-> "GetRedirectChainOrNull", arg |-> resource,
                ret |-> GetRedirectChainOrNull(collection.redirect_registry_,
                                               resource)]
  /\ UNCHANGED <<har, collection, jsvars, ivars>>

\* GetFinalRedirectTarget on an initialized registry.
CallGetFinalRedirectTarget ==
  /\ collection.redirect_registry_.initialized_
  /\ \E resource \in ResourceArguments :
       \E target \in FinalRedirectTargets(collection, resource) :
         call' = [op |-> "GetFinalRedirectTarget", arg |-> resource,
                  ret |-> target]
  /\ UNCHANGED <<har, collection, jsvars, ivars>>

CollectionNext ==
  \/ CallAddResource \/ CallSetPrimaryResourceUrl
  \/ CallGetMutableResource \/ CallGetMutableResourceWithUrlOrNull
  \/ CallFreeze \/ CallGetResourcesInRequestOrder
  \/ CallGetRedirectChainOrNull \/ CallGetFinalRedirectTarget

SpecCollection == CollectionInit /\ [][CollectionNext]_vars

\* ------------------------------------------------------------------------
\* The state machine of the ImageConverter and its caller
\* ------------------------------------------------------------------------

\* The state at the entry of ConvertImage(reader, writer), or before a call
\* of GetSmallestOfPngJpegWebp.
ImageInit ==
  /\ \/ \E n \in 0..MaxScanlines :
          \E read_fails_at, write_fails_at \in 0..n :
            \E finalizes \in BOOLEAN :
              conversion =
                ConvertImageEntry(ScanlineReader(Scanlines(n), read_fails_at),
                                  ScanlineWriter(write_fails_at, finalizes))
     \/ conversion = NoConversion
  /\ selection = NoSelection
  /\ har = NoHar
  /\ collection = ResourceCollection(har.resource_filter)
  /\ call = NoCall
  /\ entry = "none" /\ minifier = NULL /\ pc = "done" /\ out0 = << >>
  /\ minimized_size = -1 /\ result = "none"

\* while (reader->HasMoreScanLines())
TestHasMoreScanLines ==
  /\ conversion.pc = "HasMoreScanLines"
  /\ conversion' = ConvertImage_while(conversion)
  /\ UNCHANGED <<selection, jsvars, cvars>>

PullScanline ==
  /\ conversion.pc = "ReadNextScanline"
  /\ conversion' = ConvertImage_read(conversion)
  /\ UNCHANGED <<selection, jsvars, cvars>>

PushScanline ==
  /\ conversion.pc = "WriteNextScanline"
  /\ conversion' = ConvertImage_write(conversion)
  /\ UNCHANGED <<selection, jsvars, cvars>>

Finalize ==
  /\ conversion.pc = "FinalizeWrite"
  /\ conversion' = ConvertImage_finalize(conversion)
  /\ UNCHANGED <<selection, jsvars, cvars>>

\* GetSmallestOfPngJpegWebp(reader, in, jpeg_options, webp_config, &out).
CallGetSmallestOfPngJpegWebp ==
  /\ conversion = NoConversion /\ selection = NoSelection
  /\ \E in \in Pngs :
       \E jpeg_options \in {NULL, JpegCompressionOptions} :
         \E webp_config \in {NULL, WebpConfiguration} :
           \E codecs \in [{"webp_lossless", "webp_lossy", "png", "jpeg"}
                            -> EncodedSizes] :
             \E outcome \in GetSmallestOfPngJpegWebp(in, jpeg_options,
                                                     webp_config, codecs) :
               selection' =
                 [op |-> "GetSmallestOfPngJpegWebp", in |-> in,
                  jpeg_options |-> jpeg_options, webp_config |-> webp_config,
                  codecs |-> codecs, outcome |-> outcome]
  /\ UNCHANGED <<conversion, jsvars, cvars>>

\* The calls of ConvertImage on its reader and its writer.
ConvertImageNext ==
  \/ TestHasMoreScanLines \/ PullScanline \/ PushScanline \/ Finalize

ImageNext == ConvertImageNext \/ CallGetSmallestOfPngJpegWebp

SpecImage == ImageInit /\ [][ImageNext]_vars

\* ConvertImage runs on the thread of its caller: a call that is under way
\* takes its next step.
SpecImageRuns ==
  ImageInit /\ [][ImageNext]_vars /\ WF_vars(ConvertImageNext)

\* The bytes the call has emitted so far, for either consumer.
Emitted ==
  IF minifier.output_.kind = "StringConsumer"
  THEN Len(minifier.output_.output_) - Len(out0)
  ELSE minifier.output_.size_

\* The caller's output string (string entry points).
Out == minifier.output_.output_

\* The bytes the call has appended to the caller's output string.
Appended == SubSeq(Out, Len(out0) + 1, Len(Out))

\* ------------------------------------------------------------------------
\* Properties
\* ------------------------------------------------------------------------

\* C1: minifier idempotence: whenever MinifyJs succeeds on an input with
\* output y, MinifyJs succeeds on y and returns y again, byte for byte.
C1_Idempotent ==
  (pc = "done" /\ entry = "MinifyJs" /\ result = TRUE) =>
    LET y == Appended
        again == MinifyJs(y, << >>)
    IN  again.ok /\ again.out = y

\* C2: atomic error propagation: whenever a string entry point reports
\* failure, the caller's output string is what it was before the call.
C2_FailureLeavesOutputUnchanged ==
  (pc = "done" /\ entry \in StringEntryPoints /\ result = FALSE) => Out = out0

\* C4: monotone size: at every step of the scan the number of bytes emitted
\* is at most the number of input bytes consumed, so that the output of a
\* successful call is no longer than its input.
C4_MonotoneSize ==
  /\ Emitted <= (IF minifier.index_ < Len(minifier.input_)
                 THEN minifier.index_ ELSE Len(minifier.input_))
  /\ (pc = "done" /\ result = TRUE) => Emitted <= Len(minifier.input_)

\* A successful call that kept a linebreak and saved no byte.
C4_Witness ==
  /\ pc = "done" /\ result = TRUE
  /\ minifier.input_ = Bytes(<<"i", "\n", "+", "+">>)
  /\ Emitted = Len(minifier.input_)

\* C5: the size-only entry points agree with the emitting ones: they succeed
\* on the same inputs and on success report the length of the emitted output,
\* GetMinifiedJsSize against MinifyJs and GetMinifiedStringCollapsedJsSize
\* against MinifyJsAndCollapseStrings.
C5_SizeAgreesWithOutput ==
  /\ (pc = "done" /\ entry = "GetMinifiedJsSize") =>
       LET r == MinifyJs(minifier.input_, << >>)
       IN  /\ result = r.ok
           /\ result = TRUE => minimized_size = Len(r.out)
           /\ result = FALSE => minimized_size = -1
  /\ (pc = "done" /\ entry = "GetMinifiedStringCollapsedJsSize") =>
       LET r == MinifyJsAndCollapseStrings(minifier.input_, << >>)
       IN  /\ result = r.ok
           /\ result = TRUE => minimized_size = Len(r.out)
           /\ result = FALSE => minimized_size = -1

\* A size-only call with string collapsing that measured two collapsed
\* string literals and a separator-free join.
C5_Witness ==
  /\ pc = "done" /\ entry = "GetMinifiedStringCollapsedJsSize"
  /\ result = TRUE
  /\ minifier.input_ = Bytes(<<"'", "x", "'">>)
  /\ minimized_size = 2

\* C6: minifying kUnminified succeeds and yields exactly kMinified, the
\* minified text with a leading linebreak.
C6_BasicYieldsKMinified ==
  (pc = "done" /\ entry = "MinifyJs" /\ minifier.input_ = kUnminified) =>
    result = TRUE /\ Appended = kMinified

\* C7: minifying kMinified, the already minified text with its leading
\* linebreak, yields an output that is not shorter than the input.
C7_AlreadyMinifiedNoSavings ==
  (pc = "done" /\ entry = "MinifyJs" /\ minifier.input_ = kMinified) =>
    result = TRUE /\ Len(Appended) >= Len(minifier.input_)

\* ------------------------------------------------------------------------
\* Literals, described without the scanning loops
\* ------------------------------------------------------------------------

\* The number of backslashes that stand directly before position j, counted
\* back no further than the position after begin.
BackslashRun(input, begin, j) ==
  CHOOSE k \in 0..(j - begin - 1) :
    /\ \A t \in 1..k : At(input, j - t) = Ord["\\"]
    /\ (k = j - begin - 1 \/ At(input, j - k - 1) # Ord["\\"])

\* The byte at j, inside a literal that starts at begin, is not the second
\* byte of a backslash escape.
Unescaped(input, begin, j) == BackslashRun(input, begin, j) % 2 = 0

\* The positions inside the input after begin.
After(input, begin) == (begin + 1)..(Len(input) - 1)

\* The block comment that starts at begin has a closing star and slash.
BlockCommentTerminated(input, begin) ==
  \E j \in (begin + 2)..(Len(input) - 2) :
    At(input, j) = Ord["*"] /\ At(input, j + 1) = Ord["/"]

\* The string literal that starts at begin has a closing quote, which is
\* the opening quote character, unescaped.
StringTerminated(input, begin) ==
  \E j \in After(input, begin) :
    At(input, j) = At(input, begin) /\ Unescaped(input, begin, j)

\* Position j lies inside a character class of the regex literal that
\* starts at begin.
InCharacterClass(input, begin, j) ==
  \E p \in (begin + 1)..(j - 1) :
    /\ At(input, p) = Ord["["] /\ Unescaped(input, begin, p)
    /\ \A q \in (p + 1)..(j - 1) :
         ~(At(input, q) = Ord["]"] /\ Unescaped(input, begin, q))

\* Position j holds a slash that can close the regex literal.
ClosesRegex(input, begin, j) ==
  /\ At(input, j) = Ord["/"]
  /\ Unescaped(input, begin, j)
  /\ ~InCharacterClass(input, begin, j)

\* The regex literal that starts at begin has a closing slash with no
\* unescaped linebreak byte before it.
RegexTerminated(input, begin) ==
  \E j \in After(input, begin) :
    /\ ClosesRegex(input, begin, j)
    /\ \A k \in (begin + 1)..(j - 1) :
         ~(At(input, k) = Ord["\n"] /\ Unescaped(input, begin, k))

\* The regex literal that starts at begin has a closing slash with no
\* linebreak byte at all before it.
RegexTerminatedNoLinebreakByte(input, begin) ==
  \E j \in After(input, begin) :
    /\ ClosesRegex(input, begin, j)
    /\ \A k \in (begin + 1)..(j - 1) : At(input, k) # Ord["\n"]
    /\ \A k \in (begin + 1)..(j - 1) : ~ClosesRegex(input, begin, k)

\* The loop is about to run an iteration.
InLoop == pc = "Minify" /\ MinifyContinues(minifier)

\* What an iteration of the loop and the return do to the error flag and
\* the result, given when a regex literal counts as terminated.
ErrorsExactlyWhenUnterminated(RegexOk(_, _)) ==
  LET input == minifier.input_
      begin == minifier.index_
  IN  /\ AtBranch("block_comment") =>
           (minifier'.error_ <=> ~BlockCommentTerminated(input, begin))
      /\ AtBranch("string") =>
           (minifier'.error_ <=> ~StringTerminated(input, begin))
      /\ AtBranch("regex") =>
           (minifier'.error_ <=> ~RegexOk(input, begin))
      /\ (InLoop /\ MinifyBranch(minifier) \notin
                       {"block_comment", "string", "regex"}) =>
           ~minifier'.error_
      /\ (pc = "Minify" /\ pc' = "done") => (result' = ~minifier.error_)

\* C3 as stated: MinifyJs fails when the scan enters a block comment with no
\* closing star-slash, a string literal with no closing matching quote, or a
\* regex literal with the end of input or a raw linebreak byte before its
\* closing slash; it succeeds when every comment, string and regex literal
\* it enters is terminated.
C3_ErrorIffUnterminated ==
  [][ErrorsExactlyWhenUnterminated(RegexTerminatedNoLinebreakByte)]_jsvars

\* C3 as amended: the same, where the linebreak byte that ends a regex
\* literal is one that is not escaped by a backslash.
C3_ErrorIffUnterminatedUnescaped ==
  [][ErrorsExactlyWhenUnterminated(RegexTerminated)]_jsvars

\* A call that failed on a regex literal with a linebreak before its slash.
C3_Witness ==
  /\ pc = "done" /\ result = FALSE
  /\ minifier.input_ = Bytes(<<"/", "\n", "/">>)

\* The bytes that the step appends to the caller's output string.
NewBytes ==
  SubSeq(minifier'.output_.output_, Len(Out) + 1,
         Len(minifier'.output_.output_))

ReturnRegexInput ==
  Bytes(<<"r", "e", "t", "u", "r", "n", " ", "/", "x", "/", "g">>)

\* C8 as stated: when whitespace stands between a keyword that can precede a
\* regex and a regex literal, the separator is kept: return /x/g is
\* minified to itself.
C8_SeparatorKeptAfterKeyword ==
  (pc = "done" /\ entry = "MinifyJs" /\ minifier.input_ = ReturnRegexInput) =>
    result = TRUE /\ Appended = ReturnRegexInput

\* C8 as amended: a slash after a keyword that can precede a regex starts a
\* regex literal, which is copied verbatim; spaces and tabs before it are
\* dropped and a linebreak before it is kept as one linebreak byte, so that
\* return /x/g is minified to return/x/g.
C8_RegexAfterKeyword ==
  [][/\ (/\ AtBranch("regex") /\ entry \in StringEntryPoints
         /\ minifier.prev_token_ = kKeywordCanPrecedeRegExToken
         /\ ~minifier'.error_) =>
          /\ minifier'.prev_token_ = kRegexToken
          /\ NewBytes =
               (IF minifier.whitespace_ = "LINEBREAK"
                THEN <<Ord["\n"]>> ELSE << >>) \o
               Substr(minifier.input_, minifier.index_,
                      minifier'.index_ - minifier.index_)
     /\ (/\ pc = "Minify" /\ pc' = "done" /\ entry = "MinifyJs"
          /\ minifier.input_ = ReturnRegexInput) =>
          /\ result' = TRUE
          /\ Appended =
               Bytes(<<"r", "e", "t", "u", "r", "n", "/", "x", "/", "g">>)
     ]_jsvars

\* return /x/g has been minified: the regex literal follows the keyword
\* with no byte in between.
C8_Witness ==
  /\ pc = "done" /\ entry = "MinifyJs" /\ result = TRUE
  /\ minifier.input_ = ReturnRegexInput
  /\ Appended = Bytes(<<"r", "e", "t", "u", "r", "n", "/", "x", "/", "g">>)

DivisionInput == Bytes(<<"a", " ", "/", "b", "/", " ", "g">>)

\* C9: a slash that starts neither a line comment nor a block comment is
\* emitted as the one-byte division token exactly when the previous token is
\* a name or number, a regex, a string, a closing parenthesis or a closing
\* bracket; after every other previous token a regex literal is consumed,
\* which either ends the scan with an error or appends the literal.  The
\* input a /b/ g is minified to a/b/g.
C9_DivisionOrRegex ==
  [][/\ (/\ InLoop /\ entry \in StringEntryPoints
         /\ At(minifier.input_, minifier.index_) = Ord["/"]
         /\ Peek(minifier) \notin {Ord["/"], Ord["*"]}) =>
          IF minifier.prev_token_ \in
               {kNameNumberToken, kRegexToken, kStringToken, Ord[")"],
                Ord["]"]}
          THEN /\ NewBytes = <<Ord["/"]>>
               /\ minifier'.prev_token_ = Ord["/"]
               /\ minifier'.index_ = minifier.index_ + 1
               /\ ~minifier'.error_
          ELSE \/ /\ minifier'.error_
                  /\ NewBytes = << >>
                  /\ ~RegexTerminated(minifier.input_, minifier.index_)
               \/ /\ ~minifier'.error_
                  /\ minifier'.prev_token_ = kRegexToken
                  /\ minifier'.index_ >= minifier.index_ + 2
                  /\ ClosesRegex(minifier.input_, minifier.index_,
                                 minifier'.index_ - 1)
                  /\ \E sep \in {<< >>, <<Ord[" "]>>, <<Ord["\n"]>>} :
                       NewBytes = sep \o
                         Substr(minifier.input_, minifier.index_,
                                minifier'.index_ - minifier.index_)
     /\ (/\ pc = "Minify" /\ pc' = "done" /\ entry = "MinifyJs"
          /\ minifier.input_ = DivisionInput) =>
          /\ result' = TRUE
          /\ Appended = Bytes(<<"a", "/", "b", "/", "g">>)
     ]_jsvars

\* a /b/ g has been minified to two divisions.
C9_Witness ==
  /\ pc = "done" /\ entry = "MinifyJs" /\ result = TRUE
  /\ minifier.input_ = DivisionInput
  /\ Appended = Bytes(<<"a", "/", "b", "/", "g">>)
  /\ minifier.prev_token_ = kNameNumberToken

IncrementInput == Bytes(<<"i", "\n", "+", "+">>)

\* C10: when a linebreak stands between a token that ends a primary
\* expression and a following ++ or --, exactly one linebreak byte is emitted
\* between them (i, linebreak, ++ is minified to itself); when a linebreak
\* stands after ++ or --, one linebreak byte is emitted before the next token
\* unless that token is one of = < > ; : ? | ^ & * / % , . or ) ] }.
C10_LinebreakAroundIncrement ==
  [][/\ (/\ InLoop /\ entry \in StringEntryPoints
         /\ minifier.whitespace_ = "LINEBREAK"
         /\ NewBytes # << >>) =>
          LET p == minifier.prev_token_
              n == minifier'.prev_token_
          IN  /\ (/\ p \in {kNameNumberToken, kRegexToken, kStringToken,
                            Ord[")"], Ord["]"]}
                  /\ n \in {kPlusPlusToken, kMinusMinusToken}) =>
                   NewBytes = <<Ord["\n"]>> \o
                     (IF n = kPlusPlusToken THEN Bytes(<<"+", "+">>)
                      ELSE Bytes(<<"-", "-">>))
              /\ p \in {kPlusPlusToken, kMinusMinusToken} =>
                   /\ (NewBytes[1] = Ord["\n"]) <=>
                        n \notin {Ord["="], Ord["<"], Ord[">"], Ord[";"],
                                  Ord[":"], Ord["?"], Ord["|"], Ord["^"],
                                  Ord["&"], Ord["*"], Ord["/"], Ord["%"],
                                  Ord[","], Ord["."], Ord[")"], Ord["]"],
                                  Ord["}"]}
                   /\ NewBytes[1] = Ord["\n"] =>
                        Len(NewBytes) >= 2 /\ NewBytes[2] # Ord["\n"]
     /\ (/\ pc = "Minify" /\ pc' = "done" /\ entry = "MinifyJs"
          /\ minifier.input_ = IncrementInput) =>
          /\ result' = TRUE
          /\ Appended = IncrementInput
     ]_jsvars

\* i, linebreak, ++ has been minified and the linebreak is still there.
C10_Witness ==
  /\ pc = "done" /\ entry = "MinifyJs" /\ result = TRUE
  /\ minifier.input_ = IncrementInput
  /\ Appended = IncrementInput
  /\ minifier.prev_token_ = kPlusPlusToken

\* The position of the star of the first closing star and slash of the block
\* comment that starts at begin.
BlockCommentClose(input, begin) ==
  CHOOSE j \in (begin + 2)..(Len(input) - 2) :
    /\ At(input, j) = Ord["*"] /\ At(input, j + 1) = Ord["/"]
    /\ \A k \in (begin + 2)..(j - 1) :
         ~(At(input, k) = Ord["*"] /\ At(input, k + 1) = Ord["/"])

ConditionalCompilationInput ==
  Bytes(<<"/", "*", "@", "c", "c", "_", "o", "n", " ", "@", "*", "/",
          "v", "a", "r", " ", "x", "=", "1", ";">>)

\* C11: a terminated block comment is copied to the output verbatim and sets
\* the previous token to the conditional-compilation comment token exactly
\* when the byte after the opening slash and star is an at sign and the byte
\* before the closing star and slash is an at sign; every other terminated
\* block comment adds no byte to the output and leaves the previous token as
\* it was. The comment with cc_on followed by var x=1; is minified to itself.
C11_ConditionalCommentKept ==
  [][/\ (/\ AtBranch("block_comment") /\ entry \in StringEntryPoints
         /\ BlockCommentTerminated(minifier.input_, minifier.index_)) =>
          LET input == minifier.input_
              begin == minifier.index_
              close == BlockCommentClose(input, begin)
              comment == Substr(input, begin, close + 2 - begin)
          IN  IF /\ At(input, begin + 2) = Ord["@"]
                 /\ At(input, close - 1) = Ord["@"]
              THEN /\ minifier'.prev_token_ = kCCCommentToken
                   /\ NewBytes \in {comment, <<Ord["\n"]>> \o comment}
                   /\ minifier'.error_ = FALSE
              ELSE /\ NewBytes = << >>
                   /\ minifier'.prev_token_ = minifier.prev_token_
                   /\ minifier'.error_ = FALSE
     /\ (/\ pc = "Minify" /\ pc' = "done" /\ entry = "MinifyJs"
          /\ minifier.input_ = ConditionalCompilationInput) =>
          /\ result' = TRUE
          /\ Appended = ConditionalCompilationInput
     ]_jsvars

\* The conditional-compilation comment followed by var x=1; has been
\* minified to itself.
C11_Witness ==
  /\ pc = "done" /\ entry = "MinifyJs" /\ result = TRUE
  /\ minifier.input_ = ConditionalCompilationInput
  /\ Appended = ConditionalCompilationInput

\* The position of the closing quote of the string literal that starts at
\* begin: the first unescaped byte after begin that is the opening quote.
StringClose(input, begin) ==
  CHOOSE j \in After(input, begin) :
    /\ At(input, j) = At(input, begin) /\ Unescaped(input, begin, j)
    /\ \A k \in (begin + 1)..(j - 1) :
         ~(At(input, k) = At(input, begin) /\ Unescaped(input, begin, k))

\* C12: with string collapsing enabled every terminated string literal
\* (single quote, double quote or backquote, a backslash escaping the next
\* byte) is emitted as two bytes, the opening quote twice; with it disabled
\* the literal is emitted verbatim. In both modes the previous token becomes
\* the string token, and a collapsing call succeeds exactly when the
\* non-collapsing call on the same input succeeds.
C12_StringCollapsedOrVerbatim ==
  [][/\ (/\ AtBranch("string") /\ entry \in StringEntryPoints
         /\ StringTerminated(minifier.input_, minifier.index_)) =>
          LET input == minifier.input_
              begin == minifier.index_
              quote == At(input, begin)
              close == StringClose(input, begin)
              literal == Substr(input, begin, close + 1 - begin)
              emitted == IF entry \in CollapsingEntryPoints
                         THEN <<quote, quote>> ELSE literal
          IN  /\ quote \in {Ord["'"], Ord["\""], Backquote}
              /\ minifier'.prev_token_ = kStringToken
              /\ minifier'.error_ = FALSE
              /\ NewBytes \in {emitted, <<Ord["\n"]>> \o emitted}
     /\ (/\ AtBranch("string") /\ entry \in SizeEntryPoints
          /\ entry \in CollapsingEntryPoints
          /\ StringTerminated(minifier.input_, minifier.index_)) =>
          /\ minifier'.prev_token_ = kStringToken
          /\ minifier'.output_.size_ - minifier.output_.size_ \in {2, 3}
     /\ (/\ pc = "Minify" /\ pc' = "done"
          /\ entry \in CollapsingEntryPoints) =>
          result' = MinifyJs(minifier.input_, << >>).ok
     ]_jsvars

\* A collapsing call has returned after a literal of four bytes with an
\* escaped linebreak inside, and its output is the two quote bytes.
C12_Witness ==
  /\ pc = "done" /\ entry = "MinifyJsAndCollapseStrings" /\ result = TRUE
  /\ minifier.input_ = Bytes(<<"\"", "\\", "\n", "\"">>)
  /\ Appended = Bytes(<<"\"", "\"">>)
  /\ minifier.prev_token_ = kStringToken

\* ------------------------------------------------------------------------
\* Properties of the resource collection
\* ------------------------------------------------------------------------

\* The resources that the collection has accepted.
Accepted == {collection.resources_[i] : i \in 1..Len(collection.resources_)}

\* The canonical form of a URL: the URL without its fragment; a string that
\* is no valid URI stands for itself.
CanonicalForm(url) == IF IsValidUri(url) THEN StripFragment(url) ELSE url

\* The step is a call of op.
Calls(op) == call'.op = op /\ <<collection, call>>' # <<collection, call>>

\* C13: AddResource on an unfrozen collection returns false and leaves the
\* resource sequence, the URL map and the host map as they are when the
\* resource has an empty URL, a URL whose canonical form is that of a
\* resource already present, a status code that is not positive, or is
\* rejected by the filter; otherwise it returns true, appends the resource
\* at the end of the sequence and indexes it under its URL and its host.
C13_AddResourceRejectsOrAppends ==
  [][(Calls("AddResource") /\ ~collection.frozen_) =>
       LET resource == call'.arg
           url == resource.request_url_
           host == GetHost(resource)
           rejected ==
             \/ url = << >>
             \/ \E r \in Accepted :
                  CanonicalForm(r.request_url_) = CanonicalForm(url)
             \/ resource.status_code_ <= 0
             \/ host \in har.resource_filter
       IN  IF rejected
           THEN /\ call'.ret = Bool(FALSE)
                /\ collection'.resources_ = collection.resources_
                /\ collection'.url_resource_map_ =
                     collection.url_resource_map_
                /\ collection'.host_resource_map_ =
                     collection.host_resource_map_
           ELSE /\ call'.ret = Bool(TRUE)
                /\ collection'.resources_ =
                     Append(collection.resources_, resource)
                /\ url \in DOMAIN collection'.url_resource_map_
                /\ collection'.url_resource_map_[url] = resource
                /\ host \in DOMAIN collection'.host_resource_map_
                /\ resource \in collection'.host_resource_map_[host]
     ]_cvars

\* C14: after Freeze every mutating call fails and changes nothing:
\* AddResource and SetPrimaryResourceUrl return false, GetMutableResource
\* and GetMutableResourceWithUrlOrNull return NULL, and the resource
\* sequence, the URL and host maps, the primary URL, the request-order view
\* and the chains of the registry stay as they are.
C14_FrozenMutationFails ==
  [][/\ (collection.frozen_ /\ (Calls("AddResource") \/
                                 Calls("SetPrimaryResourceUrl"))) =>
          call'.ret = Bool(FALSE) /\ collection' = collection
     /\ (collection.frozen_ /\ (Calls("GetMutableResource") \/
                                 Calls("GetMutableResourceWithUrlOrNull"))) =>
          call'.ret = NULL /\ collection' = collection
     ]_cvars

\* Every kind of mutating call has failed on a frozen collection that holds
\* the resource it asked for; here GetMutableResource.
C14_Witness ==
  /\ collection.frozen_ /\ collection.resources_ # << >>
  /\ call.op = "GetMutableResource" /\ call.ret = NULL

\* C15: URLs are canonicalized before every insertion into the URL map and
\* before every lookup: no two accepted resources have the same canonical
\* URL, and every accepted resource is what GetResourceWithUrlOrNull
\* returns for its request URL, with or without a fragment.
C15_CanonicalUrlsUnique ==
  /\ \A r1, r2 \in Accepted :
       CanonicalForm(r1.request_url_) = CanonicalForm(r2.request_url_) =>
         r1 = r2
  /\ \A r \in Accepted :
       GetResourceWithUrlOrNull(collection, r.request_url_) = r

\* Every resource of the collection has a request start time.
AllHaveStartTimes ==
  \A r \in Accepted : r.request_start_time_millis_ >= 0

\* The request-order view is there: GetResourcesInRequestOrder returns it.
ViewPopulated == GetResourcesInRequestOrder(collection) # NULL

\* The view is a permutation of the resource sequence, sorted by the
\* comparator, in which resources that compare equal keep their order of
\* insertion (the address of a resource is its position of insertion).
ViewIsStableSorted ==
  LET view == collection.request_order_vector_
  IN  /\ Len(view) = Len(collection.resources_)
      /\ {view[i] : i \in 1..Len(view)} = Accepted
      /\ \A i, j \in 1..Len(view) :
           i < j =>
             /\ view[j].request_start_time_millis_ >=
                  view[i].request_start_time_millis_
             /\ view[j].request_start_time_millis_ =
                  view[i].request_start_time_millis_ =>
                    view[i].address < view[j].address

\* C16 as stated: after Freeze the request-order view is populated exactly
\* when every resource has a request start time; when populated it is a
\* permutation of the resource sequence, sorted by the comparator, with
\* equal resources in their order of insertion; when a resource lacks a
\* start time the view is absent.
C16_ViewIffAllHaveStartTimes ==
  collection.frozen_ =>
    /\ ViewPopulated <=> AllHaveStartTimes
    /\ ViewPopulated => ViewIsStableSorted
    /\ ~AllHaveStartTimes => GetResourcesInRequestOrder(collection) = NULL

\* C16, amended: after Freeze the request-order view is populated exactly
\* when the collection is not empty and every resource has a request start
\* time; when populated it is a permutation of the resource sequence,
\* sorted by the comparator, with equal resources in their order of
\* insertion; when a resource lacks a start time, or there is no resource,
\* the view is absent and GetResourcesInRequestOrder returns NULL.
C16_ViewIffNonEmptyAndAllHaveStartTimes ==
  /\ collection.frozen_ =>
       /\ ViewPopulated <=> (Accepted # {} /\ AllHaveStartTimes)
       /\ ViewPopulated => ViewIsStableSorted
       /\ ~AllHaveStartTimes => GetResourcesInRequestOrder(collection) = NULL
  /\ call.op = "GetResourcesInRequestOrder" =>
       call.ret = IF Accepted # {} /\ AllHaveStartTimes
                  THEN [kind |-> "ResourceVector",
                        at |-> collection.request_order_vector_]
                  ELSE NULL

\* A frozen collection whose view differs from the order of insertion and
\* holds two resources with the same start time, and a caller that got it.
C16_Witness ==
  /\ collection.frozen_ /\ call.op = "GetResourcesInRequestOrder"
  /\ call.ret # NULL
  /\ Len(collection.request_order_vector_) = 3
  /\ collection.request_order_vector_ # collection.resources_
  /\ collection.request_order_vector_[1].request_start_time_millis_ =
       collection.request_order_vector_[2].request_start_time_millis_
  /\ collection.request_order_vector_[3].address = 1

\* The collection c has no request-order view and its registry is not
\* initialized and has no chains.
Unfrozen(c) ==
  /\ c.request_order_vector_ = << >>
  /\ ~c.redirect_registry_.initialized_
  /\ c.redirect_registry_.redirect_chains_.elems = << >>
  /\ DOMAIN c.redirect_registry_.resource_to_redirect_chain_map_ = {}

\* C17: Freeze is a one-way transition: in every reachable state that is
\* not frozen the request-order view is empty and the registry is not
\* initialized and has no chains; Freeze returns true, sets frozen_ and
\* initializes the registry; no operation sets frozen_ back to false.
C17_FreezeIsOneWay ==
  [][/\ ~collection.frozen_ => Unfrozen(collection)
     /\ ~collection'.frozen_ => Unfrozen(collection')
     /\ Calls("Freeze") =>
          /\ call'.ret = Bool(TRUE)
          /\ collection'.frozen_
          /\ collection'.redirect_registry_.initialized_
     /\ collection.frozen_ => collection'.frozen_
     ]_cvars

\* Freeze has returned true on a collection with resources, and the
\* collection is frozen with a request-order view and a chain in its
\* initialized registry.
C17_Witness ==
  /\ call.op = "Freeze" /\ call.ret = Bool(TRUE)
  /\ collection.frozen_ /\ collection.redirect_registry_.initialized_
  /\ collection.request_order_vector_ # << >>
  /\ collection.redirect_registry_.redirect_chains_.elems # << >>

\* ------------------------------------------------------------------------
\* Properties of the redirect registry
\* ------------------------------------------------------------------------

\* The chain vector of the registry, and its resource-to-chain map.
Chains == collection.redirect_registry_.redirect_chains_.elems

ChainMap == collection.redirect_registry_.resource_to_redirect_chain_map_

\* The positions of chain that hold resource.
Positions(chain, resource) == {k \in 1..Len(chain) : chain[k] = resource}

\* The slots of the chains that hold resource.
ChainsOf(resource) ==
  {i \in 1..Len(Chains) : Positions(Chains[i], resource) # {}}

\* The resource is the target of a redirect of the collection.
IsRedirectTarget(resource) ==
  \E source \in Accepted :
    /\ GetRedirectedUrl(source) # << >>
    /\ CanonicalForm(GetRedirectedUrl(source)) =
         CanonicalForm(resource.request_url_)

\* C18: registry coverage: after Init every resource of the collection that
\* is a redirect or the target of a redirect is in exactly one chain of the
\* chain vector, and once in it; no resource is in two different chains.
C18_EveryRedirectInOneChain ==
  collection.redirect_registry_.initialized_ =>
    \A r \in Accepted :
      /\ (IsRedirect(r) \/ IsRedirectTarget(r)) =>
           /\ Cardinality(ChainsOf(r)) = 1
           /\ \A i \in ChainsOf(r) :
                Cardinality(Positions(Chains[i], r)) = 1
      /\ Cardinality(ChainsOf(r)) <= 1

\* C19: chain references stay valid: after Init, with or without a fix-up
\* that removes chains from the middle of the chain vector and appends the
\* fix-up chain, every resource with a chain reference refers to a live
\* element of the chain vector, and that chain holds the resource.
C19_ChainReferencesValid ==
  collection.redirect_registry_.initialized_ =>
    \A r \in DOMAIN ChainMap :
      /\ IsLiveChain(collection.redirect_registry_.redirect_chains_,
                     ChainMap[r])
      /\ Positions(Chains[ChainMap[r].slot], r) # {}

\* C20: GetFinalRedirectTarget(r) returns r when r has no chain reference
\* (NULL for NULL), and otherwise the last element of the chain that r is
\* mapped to.
C20_FinalTargetIsLastOfChain ==
  [][Calls("GetFinalRedirectTarget") =>
       LET r == call'.arg
       IN  IF r = NULL \/ r \notin DOMAIN ChainMap
           THEN call'.ret = r
           ELSE /\ IsLiveChain(collection.redirect_registry_.redirect_chains_,
                               ChainMap[r])
                /\ Chains[ChainMap[r].slot] # << >>
                /\ call'.ret = Chains[ChainMap[r].slot]
                                  [Len(Chains[ChainMap[r].slot])]
     ]_cvars


\* The orders of the accepted resources: every sequence that holds each of
\* them once.
Orders ==
  {order \in [1..Cardinality(Accepted) -> Accepted] :
     \A i, j \in DOMAIN order : order[i] = order[j] => i = j}

\* The sequence is R1, ..., Rn, T: every resource but the last is a redirect
\* to the next one, and the last one is no redirect.
IsLinearSequence(order) ==
  /\ Len(order) >= 2
  /\ \A i \in 1..(Len(order) - 1) :
       /\ IsRedirect(order[i])
       /\ CanonicalForm(GetRedirectedUrl(order[i])) =
            CanonicalForm(order[i + 1].request_url_)
  /\ ~IsRedirect(order[Len(order)])

LeadingRedirects(view) ==
  CHOOSE n \in 0..Len(view) :
    /\ \A i \in 1..n : IsRedirect(view[i])
    /\ n < Len(view) => ~IsRedirect(view[n + 1])

FixUpChainOfView ==
  LET view == collection.request_order_vector_
      n == LeadingRedirects(view)
  IN  IF n = 0 THEN << >>
      ELSE SubSeq(view, 1, IF n < Len(view) THEN n + 1 ELSE n)

\* The registry as BuildRedirectChains leaves it, before the fix-up.
BuiltRegistry == BuildRedirectChains(RedirectRegistry, collection)

\* The landing resource: the primary resource, or the last resource of the
\* fix-up chain when there is no primary resource.
LandingResource ==
  IF GetPrimaryResourceOrNull(collection) # NULL
  THEN GetPrimaryResourceOrNull(collection)
  ELSE FixUpChainOfView[Len(FixUpChainOfView)]

\* The fix-up replaces: there is a fix-up chain, and the landing resource
\* has no chain or a chain that is shorter than the fix-up chain.
FixUpReplaces ==
  /\ FixUpChainOfView # << >>
  /\ LET chain == GetRedirectChainOrNull(BuiltRegistry, LandingResource)
     IN  \/ chain = NULL
         \/ Len(ChainAt(BuiltRegistry, chain)) < Len(FixUpChainOfView)

\* C22: when the landing resource has no chain or a chain shorter than the
\* fix-up chain, then after Init (a) the chain vector holds, in their order,
\* the chains built before that are empty or whose first element is not in
\* the fix-up chain, and none of the others, (b) followed by the fix-up
\* chain as its last chain, and (c) every member of the fix-up chain is
\* mapped to that last chain, so that GetFinalRedirectTarget of each member
\* is the last element of the fix-up chain.
C22_FixUpReplacesChains ==
  (collection.redirect_registry_.initialized_ /\ FixUpReplaces) =>
    LET fixup_chain == FixUpChainOfView
        Kept(chain) ==
          chain = << >> \/ Positions(fixup_chain, chain[1]) = {}
    IN  /\ Chains = Append(SelectSeq(BuiltRegistry.redirect_chains_.elems,
                                     Kept),
                           fixup_chain)
        /\ \A k \in 1..Len(fixup_chain) :
             /\ fixup_chain[k] \in DOMAIN ChainMap
             /\ ChainMap[fixup_chain[k]] =
                  ChainPointer(collection.redirect_registry_.redirect_chains_,
                               Len(Chains))
             /\ FinalRedirectTargets(collection, fixup_chain[k]) =
                  {fixup_chain[Len(fixup_chain)]}
             /\ (/\ call.op = "GetFinalRedirectTarget"
                 /\ call.arg = fixup_chain[k])
                  => call.ret = fixup_chain[Len(fixup_chain)]

\* The fix-up has replaced two chains by a chain of three resources, and
\* the caller has asked for the final target of its first member and got
\* its last.
C22_Witness ==
  /\ collection.redirect_registry_.initialized_ /\ FixUpReplaces
  /\ Len(BuiltRegistry.redirect_chains_.elems) = 2
  /\ Len(Chains) = 1 /\ Len(Chains[1]) = 3
  /\ call.op = "GetFinalRedirectTarget"
  /\ call.arg = Chains[1][1] /\ call.ret = Chains[1][3]


\* The chains that the graph has emitted and that are still there, in
\* their order: the chain vector, without the fix-up chain at its end when
\* the fix-up has replaced.
EmittedChains ==
  IF FixUpReplaces THEN SubSeq(Chains, 1, Len(Chains) - 1) ELSE Chains

\* The class of a root: 1 for a PRIMARY root, a redirect source that is no
\* target of a redirect, and 2 for a SECONDARY root.
RootClass(root) == IF IsRedirectTarget(root) THEN 2 ELSE 1

\* Every emitted chain starts with its root, a redirect source; chains of
\* PRIMARY roots come before chains of SECONDARY roots; Before(r1, r2) tells
\* the order of two roots of one class.
EmissionOrder(Before(_, _)) ==
  collection.redirect_registry_.initialized_ =>
    /\ \A i \in 1..Len(EmittedChains) :
         /\ EmittedChains[i] # << >>
         /\ GetRedirectedUrl(EmittedChains[i][1]) # << >>
    /\ \A i, j \in 1..Len(EmittedChains) :
         i < j =>
           LET r1 == EmittedChains[i][1]
               r2 == EmittedChains[j][1]
           IN  /\ RootClass(r1) <= RootClass(r2)
               /\ RootClass(r1) = RootClass(r2) => Before(r1, r2)

\* The source r1 was inserted into the collection before r2.
InsertedBefore(r1, r2) == r1.address < r2.address

\* The request URL of r1 is less than that of r2, byte by byte.
UrlBefore(r1, r2) == StringLessThan(r1.request_url_, r2.request_url_)

\* C23 as stated: chains rooted at PRIMARY sources are emitted before
\* chains rooted at SECONDARY sources, and within each class the roots are
\* taken in the order in which their source resources were inserted into
\* the collection.
C23_RootsInInsertionOrder == EmissionOrder(InsertedBefore)

\* C23, amended: chains rooted at PRIMARY sources are emitted before chains
\* rooted at SECONDARY sources, and within each class the roots are taken
\* in the ascending order of their request URLs, byte by byte, whatever the
\* order of insertion was.
C23_RootsInUrlOrder == EmissionOrder(UrlBefore)

\* Two chains: the first has a PRIMARY root, the second a SECONDARY root
\* with a smaller URL that was inserted first.
C23_Witness ==
  /\ collection.redirect_registry_.initialized_
  /\ Len(EmittedChains) = 2
  /\ RootClass(EmittedChains[1][1]) = 1
  /\ RootClass(EmittedChains[2][1]) = 2
  /\ UrlBefore(EmittedChains[2][1], EmittedChains[1][1])
  /\ InsertedBefore(EmittedChains[2][1], EmittedChains[1][1])


\* ------------------------------------------------------------------------
\* Properties of the whitespace state and of the separators
\* ------------------------------------------------------------------------

\* The step emits a token: it hands bytes to the consumer.
EmitsToken == minifier'.output_ # minifier.output_

\* C24: the whitespace state machine: an iteration that reads a line
\* terminator or a line comment (two slashes, the SGML opener, the SGML
\* closer at the start of a line) sets the state to LINEBREAK; one that
\* reads a space, a tab or a terminated block comment that is not preserved
\* sets it to SPACE when it is NO_WHITESPACE and leaves it otherwise; every
\* iteration that emits a token resets it to NO_WHITESPACE. So no step
\* leads from LINEBREAK to SPACE.
C24_WhitespaceStateMachine ==
  [][/\ (AtBranch("linebreak") \/ AtBranch("line_comment") \/
         AtBranch("sgml_open") \/ AtBranch("sgml_close")) =>
          minifier'.whitespace_ = "LINEBREAK"
     /\ (\/ AtBranch("space")
         \/ /\ AtBranch("block_comment")
            /\ BlockCommentTerminated(minifier.input_, minifier.index_)
            /\ ~EmitsToken) =>
          minifier'.whitespace_ =
            (IF minifier.whitespace_ = "NO_WHITESPACE" THEN "SPACE"
             ELSE minifier.whitespace_)
     /\ (InLoop /\ EmitsToken) => minifier'.whitespace_ = "NO_WHITESPACE"
     /\ InLoop =>
          ~(minifier.whitespace_ = "LINEBREAK" /\
            minifier'.whitespace_ = "SPACE")
     ]_jsvars

\* A space has been read after a linebreak that followed a token, and the
\* state is still LINEBREAK.
C24_Witness ==
  /\ pc = "Minify" /\ minifier.index_ >= 3
  /\ minifier.prev_token_ = kNameNumberToken
  /\ At(minifier.input_, minifier.index_ - 2) = Ord["\n"]
  /\ At(minifier.input_, minifier.index_ - 1) = Ord[" "]
  /\ minifier.whitespace_ = "LINEBREAK"


\* The number of bytes of the text of the token that the step emits: the
\* bytes that the step reads, or the two quotes of a collapsed string.
TokenTextLen ==
  IF minifier'.prev_token_ = kStringToken /\ minifier.collapse_string_
  THEN 2 ELSE minifier'.index_ - minifier.index_

\* The number of bytes that the step emits in front of the text of its
\* token.
SeparatorLen == (Emitted' - Emitted) - TokenTextLen

\* The bytes that the step emits in front of the text of its token.
Separator == SubSeq(NewBytes, 1, SeparatorLen)

\* The pairs of tokens that the minifier keeps from joining: between them
\* InsertSpaceIfNeeded runs before ChangeToken, which then finds no
\* whitespace.
JoinPrevented(p, n) ==
  \/ /\ p \in {kNameNumberToken, kKeywordCanPrecedeRegExToken, kRegexToken}
     /\ n \in {kNameNumberToken, kKeywordCanPrecedeRegExToken}
  \/ p \in {Ord["+"], kPlusPlusToken} /\ n \in {Ord["+"], kPlusPlusToken}
  \/ p \in {Ord["-"], kMinusMinusToken} /\ n \in {Ord["-"], kMinusMinusToken}
  \/ p = Ord["<"] /\ n = Ord["!"]
  \/ p = Ord["!"] /\ n \in {Ord["-"], kMinusMinusToken}
  \/ p = Ord["/"] /\ n = kRegexToken

\* The linebreak between p and n is suppressed.
LinebreakSuppressed(p, n) ==
  \/ p \in {kStartToken, Ord["="], Ord["<"], Ord[">"], Ord[";"], Ord[":"],
            Ord["?"], Ord["|"], Ord["^"], Ord["&"], Ord["*"], Ord["/"],
            Ord["%"], Ord[","], Ord["."], Ord["("], Ord["["], Ord["{"],
            Ord["!"], Ord["~"], Ord["+"], Ord["-"]}
  \/ n \in {Ord["="], Ord["<"], Ord[">"], Ord[";"], Ord[":"], Ord["?"],
            Ord["|"], Ord["^"], Ord["&"], Ord["*"], Ord["/"], Ord["%"],
            Ord[","], Ord["."]}
  \/ n \in {Ord[")"], Ord["]"], Ord["}"]}
  \/ /\ p \in {kNameNumberToken, kRegexToken, kStringToken, Ord[")"],
               Ord["]"]}
     /\ n \in {Ord["("], Ord["["], Ord["+"], Ord["-"]}

\* C25: linebreak suppression: when a token n is emitted after the token p
\* and ChangeToken finds the whitespace state LINEBREAK, it emits no byte in
\* front of n when p is one of START = < > ; : ? | ^ & * / % , . ( [ { ! ~
\* + -, or n is one of = < > ; : ? | ^ & * / % , . or ) ] }, or p ends a
\* primary expression and n is one of ( [ + -; in every other case it emits
\* exactly one linebreak byte.
C25_LinebreakSuppression ==
  [][(/\ InLoop /\ EmitsToken
      /\ minifier.whitespace_ = "LINEBREAK"
      /\ ~JoinPrevented(minifier.prev_token_, minifier'.prev_token_)) =>
       /\ SeparatorLen =
            (IF LinebreakSuppressed(minifier.prev_token_,
                                    minifier'.prev_token_)
             THEN 0 ELSE 1)
       /\ (entry \in StringEntryPoints /\ SeparatorLen = 1) =>
            Separator = <<Ord["\n"]>>
     ]_jsvars

\* The linebreak after a closing bracket has been kept in front of a
\* string, and the linebreak in front of the semicolon has been removed.
C25_Witness ==
  /\ pc = "done" /\ entry = "MinifyJs" /\ result = TRUE
  /\ minifier.input_ = Bytes(<<"]", "\n", "\"", "\"", "\n", ";">>)
  /\ Appended = Bytes(<<"]", "\n", "\"", "\"", ";">>)


\* C26: join prevention: when whitespace or a comment stands between two
\* tokens of one of these pairs, exactly one separator byte is emitted
\* between them, a linebreak when the whitespace state is LINEBREAK and a
\* space otherwise: a name, number, keyword or regex followed by a name,
\* number or keyword; + or ++ followed by + or ++; - or -- followed by - or
\* --; < followed by !; ! followed by - or --; the division operator
\* followed by a regex literal.
C26_JoinPrevention ==
  [][(/\ InLoop /\ EmitsToken
      /\ minifier.whitespace_ # "NO_WHITESPACE"
      /\ JoinPrevented(minifier.prev_token_, minifier'.prev_token_)) =>
       /\ SeparatorLen = 1
       /\ entry \in StringEntryPoints =>
            Separator = (IF minifier.whitespace_ = "LINEBREAK"
                         THEN <<Ord["\n"]>> ELSE <<Ord[" "]>>)
     ]_jsvars

\* An exclamation mark, a tab and -- have been minified to the two tokens
\* with one space between them.
C26_Witness ==
  /\ pc = "done" /\ entry = "MinifyJs" /\ result = TRUE
  /\ minifier.input_ = Bytes(<<"!", "\t", "-", "-">>)
  /\ Appended = Bytes(<<"!", " ", "-", "-">>)


\* The end of the line that holds position i of the input: the position of
\* the first line terminator at or after i, or the end of the input.
EndOfLine(input, i) ==
  CHOOSE j \in i..Len(input) :
    /\ j < Len(input) => At(input, j) \in {Ord["\n"], Ord["\r"]}
    /\ \A k \in i..(j - 1) : At(input, k) \notin {Ord["\n"], Ord["\r"]}

\* The step consumes the rest of the line as a comment: it emits nothing,
\* stops at the end of the line and leaves the state LINEBREAK and the
\* previous token as it was.
ConsumesLineAsComment ==
  /\ ~EmitsToken
  /\ ~minifier'.error_
  /\ minifier'.index_ = EndOfLine(minifier.input_, minifier.index_)
  /\ minifier'.whitespace_ = "LINEBREAK"
  /\ minifier'.prev_token_ = minifier.prev_token_

\* The scan is at the bytes of marker.
ScanAt(marker) == InLoop /\ StartsWithAt(minifier.input_, minifier.index_, marker)

\* C27: where the scan meets the SGML closer, it consumes it through the
\* end of the line as a comment, without output, exactly when the
\* whitespace state is LINEBREAK or no token has been emitted yet;
\* everywhere else it emits the token -- and then the token >. Where the
\* scan meets the SGML opener, it consumes it as a line comment.
C27_SgmlComments ==
  [][/\ ScanAt(Bytes(<<"-", "-", ">">>)) =>
          IF \/ minifier.whitespace_ = "LINEBREAK"
             \/ minifier.prev_token_ = kStartToken
          THEN ConsumesLineAsComment
          ELSE /\ minifier'.prev_token_ = kMinusMinusToken
               /\ minifier'.index_ = minifier.index_ + 2
               /\ TokenTextLen = 2
               /\ entry \in StringEntryPoints =>
                    SubSeq(NewBytes, SeparatorLen + 1, Len(NewBytes)) =
                      Bytes(<<"-", "-">>)
     /\ (/\ InLoop /\ minifier.index_ >= 2
         /\ StartsWithAt(minifier.input_, minifier.index_ - 2,
                         Bytes(<<"-", "-", ">">>))
         /\ minifier.prev_token_ = kMinusMinusToken
         /\ minifier.whitespace_ = "NO_WHITESPACE") =>
          /\ minifier'.prev_token_ = Ord[">"]
          /\ minifier'.index_ = minifier.index_ + 1
          /\ Emitted' = Emitted + 1
          /\ entry \in StringEntryPoints => NewBytes = Bytes(<<">">>)
     /\ ScanAt(Bytes(<<"<", "!", "-", "-">>)) => ConsumesLineAsComment
     ]_jsvars

\* The closer after a token has been emitted as -- and >, and the closer
\* and the opener at the start of the next lines have been consumed with
\* their lines.
C27_Witness ==
  /\ pc = "done" /\ entry = "MinifyJs" /\ result = TRUE
  /\ minifier.input_ =
       Bytes(<<"i", "-", "-", ">", "\n", "-", "-", ">", "x", "\n",
               "<", "!", "-", "-", "\n", "i">>)
  /\ Appended = Bytes(<<"i", "-", "-", ">", "i">>)


\* The minifier's scanner as a tokenizer: the tags and the texts of the
\* tokens that the loop of Minify emits from the state m on, after tokens,
\* and whether the scan ends without an error.
RECURSIVE ScanTokens(_, _)
ScanTokens(m, tokens) ==
  IF MinifyContinues(m)
  THEN LET next == MinifyIteration(m)
       IN  ScanTokens(next,
                      IF next.output_ # m.output_
                      THEN Append(tokens,
                                  [tag |-> next.prev_token_,
                                   text |-> Substr(m.input_, m.index_,
                                                   next.index_ - m.index_)])
                      ELSE tokens)
  ELSE [ok |-> ~m.error_, tokens |-> tokens]

\* The tokens of a text, as MinifyJs scans it.
TokensOf(text) == ScanTokens(Minifier(text, StringConsumer(<< >>)), << >>)

\* C28: token-sequence preservation: whenever MinifyJs succeeds, the
\* minifier's scanner yields the same sequence of token tags and token
\* texts over the output as over the input: no token is merged, split,
\* dropped or reclassified.
C28_TokenSequencePreserved ==
  (pc = "done" /\ entry = "MinifyJs" /\ result = TRUE) =>
    /\ TokensOf(Appended).ok
    /\ TokensOf(Appended).tokens = TokensOf(minifier.input_).tokens


\* The whitespace bytes of the minifier.
WhitespaceBytes == {Ord[" "], Ord["\t"], Ord["\n"], Ord["\r"]}

\* The tags of the tokens whose text may hold whitespace: string and regex
\* literals and preserved conditional compilation comments.
LiteralTokens == {kStringToken, kRegexToken, kCCCommentToken}

\* The bytes of the token text that the step emits, behind the separator.
TokenText == SubSeq(NewBytes, SeparatorLen + 1, Len(NewBytes))

\* C29: between two tokens that are emitted one after the other the
\* minifier emits at most one separator byte, a space or a linebreak, and
\* never the separator of InsertSpaceIfNeeded and the linebreak of
\* ChangeToken together; a token text starts and ends with a byte that is
\* no whitespace and holds whitespace only when it is a string, a regex or
\* a preserved conditional compilation comment; steps that emit no token
\* emit nothing, and so does the return. So the output does not end with
\* whitespace, and when the input has no such literal the output has no two
\* adjacent whitespace bytes.
C29_AtMostOneSeparator ==
  [][/\ (InLoop /\ EmitsToken) =>
          /\ SeparatorLen \in {0, 1}
          /\ entry \in StringEntryPoints =>
               /\ SeparatorLen = 1 =>
                    Separator \in {<<Ord[" "]>>, <<Ord["\n"]>>}
               /\ TokenText # << >>
               /\ TokenText[1] \notin WhitespaceBytes
               /\ TokenText[Len(TokenText)] \notin WhitespaceBytes
               /\ minifier'.prev_token_ \notin LiteralTokens =>
                    \A k \in 1..Len(TokenText) :
                      TokenText[k] \notin WhitespaceBytes
     /\ (pc = "Minify" /\ pc' = "done") =>
          /\ minifier' = minifier
          /\ (entry \in StringEntryPoints /\ ~minifier.error_) =>
               /\ Appended # << >> =>
                    Appended[Len(Appended)] \notin WhitespaceBytes
               /\ (\A t \in 1..Len(TokensOf(minifier.input_).tokens) :
                     TokensOf(minifier.input_).tokens[t].tag
                       \notin LiteralTokens) =>
                    \A k \in 1..(Len(Appended) - 1) :
                      ~(Appended[k] \in WhitespaceBytes /\
                        Appended[k + 1] \in WhitespaceBytes)
     ]_jsvars

\* Two names with spaces and a linebreak between them and behind them have
\* been minified to the names and one linebreak.
C29_Witness ==
  /\ pc = "done" /\ entry = "MinifyJs" /\ result = TRUE
  /\ minifier.input_ = Bytes(<<"a", " ", "\n", " ", "b", " ", "\n">>)
  /\ Appended = Bytes(<<"a", "\n", "b">>)


\* C30: the scan terminates: every iteration of the loop of Minify strictly
\* increases index_ or sets error_, and never decreases index_, so every
\* byte is consumed at most once; and every call returns, with success or
\* failure.
C30_ScanTerminates ==
  /\ [][InLoop =>
          /\ minifier'.index_ > minifier.index_ \/ minifier'.error_
          /\ minifier'.index_ >= minifier.index_
       ]_jsvars
  /\ <>(pc = "done")

\* The call on the 22 bytes of kUnminified has returned with success after
\* the scan has reached the end of the input.
C30_Witness ==
  /\ pc = "done" /\ result = TRUE
  /\ minifier.input_ = kUnminified
  /\ minifier.index_ = Len(kUnminified)


\* ------------------------------------------------------------------------
\* Properties of the traversal of the redirect graph
\* ------------------------------------------------------------------------

\* The chains that the graph emits for the collection, before any fix-up.
GraphChains == BuiltRegistry.redirect_chains_.elems

\* The redirect sources of the collection.
RedirectSources == {r \in Accepted : GetRedirectedUrl(r) # << >>}

\* source redirects to target.
RedirectsTo(source, target) ==
  /\ GetRedirectedUrl(source) # << >>
  /\ CanonicalForm(GetRedirectedUrl(source)) =
       CanonicalForm(target.request_url_)

RECURSIVE TotalLen(_)
TotalLen(chains) ==
  IF chains = << >> THEN 0 ELSE Len(Head(chains)) + TotalLen(Tail(chains))

\* The element at position k of chain number j was met before: in an
\* earlier chain, or at an earlier position of the same chain.
MetBefore(chains, j, k) ==
  \/ \E i \in 1..(j - 1) : Positions(chains[i], chains[j][k]) # {}
  \/ \E n \in 1..(k - 1) : chains[j][n] = chains[j][k]

\* a and b are a pure loop: each redirects to the other, and no other
\* resource redirects to either.
IsPureLoop(a, b) ==
  /\ a # b /\ RedirectsTo(a, b) /\ RedirectsTo(b, a)
  /\ \A r \in Accepted \ {a, b} : ~RedirectsTo(r, a) /\ ~RedirectsTo(r, b)

Present(url) == GetResourceWithUrlOrNull(collection, url) # NULL

\* The redirect graph of the collection, and the graph without the targets
\* that are not in the collection.
GraphOfCollection ==
  AddResourcesToGraph(RedirectGraph(collection), collection, 0)

GraphWithoutMissing ==
  [GraphOfCollection EXCEPT
     !.redirect_map_ = [source \in DOMAIN @ |-> SelectSeq(@[source], Present)],
     !.destinations_ = {destination \in @ : Present(destination)}]

ClosesLoop(chain) ==
  \E n \in 1..(Len(chain) - 1) : chain[n] = chain[Len(chain)]

\* Every element but the last is a redirect to the next one.
IsLinked(chain) ==
  \A k \in 1..(Len(chain) - 1) : RedirectsTo(chain[k], chain[k + 1])

\* A well-formed chain: it is not empty, begins with a redirect, every
\* element but the last redirects to the next, and the last is no redirect
\* or closes a loop.
IsWellFormed(chain) ==
  /\ chain # << >>
  /\ IsRedirect(chain[1])
  /\ IsLinked(chain)
  /\ ~IsRedirect(chain[Len(chain)]) \/ ClosesLoop(chain)

IsGraphChain(chains, j) ==
  chains[j] # << >> =>
    /\ IsRedirect(chains[j][1])
    /\ IsLinked(chains[j])
    /\ \/ ~IsRedirect(chains[j][Len(chains[j])])
       \/ ~Present(GetRedirectedUrl(chains[j][Len(chains[j])]))
       \/ MetBefore(chains, j, Len(chains[j]))

LandingChain == GetRedirectChainOrNull(BuiltRegistry, LandingResource)

\* (a) There is no request-order view.
NoRequestOrderView == GetResourcesInRequestOrder(collection) = NULL

\* (b) The first resource in request order is no redirect.
ViewStartsWithoutRedirect ==
  /\ GetResourcesInRequestOrder(collection) # NULL
  /\ ~IsRedirect(GetResourcesInRequestOrder(collection).at[1])

\* (c) The landing resource has a chain at least as long as the fix-up
\* chain.
LandingChainLongEnough ==
  /\ FixUpChainOfView # << >>
  /\ LandingChain # NULL
  /\ Len(ChainAt(BuiltRegistry, LandingChain)) >= Len(FixUpChainOfView)

\* C34: the fix-up is a no-op in the cases without replacement: when there
\* is no request-order view, when the first resource in request order is no
\* redirect, or when the landing resource has a chain at least as long as
\* the fix-up chain, the chain vector (its elements and its buffer) and the
\* resource-to-chain map after Init are those of the graph traversal.
C34_FixUpNoOp ==
  (/\ collection.redirect_registry_.initialized_
   /\ \/ NoRequestOrderView
      \/ ViewStartsWithoutRedirect
      \/ LandingChainLongEnough) =>
    /\ collection.redirect_registry_.redirect_chains_ =
         BuiltRegistry.redirect_chains_
    /\ ChainMap = BuiltRegistry.resource_to_redirect_chain_map_

\* Freeze has run on a view that starts with a redirect, the landing
\* resource has a chain as long as the fix-up chain, and the chain is
\* still there.
C34_Witness ==
  /\ collection.redirect_registry_.initialized_
  /\ call.op = "Freeze"
  /\ LandingChainLongEnough
  /\ Len(Chains) = 1 /\ Chains[1] = FixUpChainOfView


\* C35: map/chain consistency after Init: every resource that is an element
\* of a chain of the chain vector has a chain reference (ChainFor is not
\* NULL for it), also when the fix-up has erased the map entries of the
\* chains that it removed.
C35_ChainMembersAreMapped ==
  collection.redirect_registry_.initialized_ =>
    \A j \in 1..Len(Chains) :
      \A k \in 1..Len(Chains[j]) :
        GetRedirectChainOrNull(collection.redirect_registry_, Chains[j][k])
          # NULL


\* ------------------------------------------------------------------------
\* Properties of the ImageConverter
\* ------------------------------------------------------------------------

\* A call of ConvertImage is under way or has returned.
Converting == conversion.pc # "none"

\* No read and no write of the call fails: the reader and the writer have
\* no line to fail at (a line to fail at is a line of the image).
NoScanlineFails ==
  conversion.reader.fails_at_ = 0 /\ conversion.writer.fails_at_ = 0

\* C36: the scanline protocol of ConvertImage. The rows that were written
\* are the first rows of the reader, in their order; a row that was read is
\* written before the next row is read or the loop is left; FinalizeWrite is
\* called at most once, and only when the reader has no more scanlines and
\* every row is written; at the return it was called once when no read and
\* no write failed and not at all otherwise; the call returns true exactly
\* when no read and no write failed and FinalizeWrite succeeded; and every
\* call returns.
C36_ScanlineProtocol ==
  /\ [](Converting =>
          LET reader == conversion.reader
              writer == conversion.writer
              written == Len(writer.written_)
          IN  /\ writer.written_ = SubSeq(reader.lines_, 1, written)
              /\ reader.next_ \in {written, written + 1}
              /\ reader.next_ = written + 1 =>
                   \/ conversion.pc = "WriteNextScanline"
                   \/ conversion.pc = "return" /\ conversion.ret = Bool(FALSE)
              /\ conversion.pc = "WriteNextScanline" =>
                   /\ reader.next_ = written + 1
                   /\ conversion.scan_row = reader.lines_[reader.next_]
              /\ writer.finalized_ \in {0, 1}
              /\ writer.finalized_ = 1 =>
                   /\ conversion.pc = "return"
                   /\ ~HasMoreScanLines(reader)
                   /\ writer.written_ = reader.lines_
              /\ conversion.pc = "return" =>
                   /\ writer.finalized_ = (IF NoScanlineFails THEN 1 ELSE 0)
                   /\ conversion.ret =
                        Bool(NoScanlineFails /\ writer.finalizes_)
              /\ conversion.pc # "return" => conversion.ret = NULL)
  /\ <>(conversion.pc \in {"return", "none"})

\* ConvertImage has returned true for an image of three scanlines.
C36_Witness ==
  /\ conversion.pc = "return" /\ conversion.ret = Bool(TRUE)
  /\ conversion.writer.written_ = Scanlines(MaxScanlines)
  /\ conversion.writer.finalized_ = 1


\* C37: in GetSmallestOfPngJpegWebp the JPEG conversion is attempted only
\* when JPEG options are provided; whatever options and configuration are
\* provided and whichever conversions fail, the call dereferences no NULL
\* writer, options or candidate image and returns; and when no candidate
\* qualifies (here: the file cannot be read, so that every conversion
\* fails) it returns IMAGE_NONE with the input as the output.
C37_SelectorIsNilSafe ==
  selection.op = "GetSmallestOfPngJpegWebp" =>
    /\ selection.outcome.jpeg_attempted => selection.jpeg_options # NULL
    /\ selection.outcome.nil_dereferenced = {}
    /\ selection.outcome.kind = "return"
    /\ ~selection.in.readable =>
         /\ selection.outcome.best_image_type = "IMAGE_NONE"
         /\ selection.outcome.out = String("in", selection.in.size)

====
